---- MODULE Spec2Model ----
(***************************************************************************)
(* Sigap AI backend: fixed-cycle signal controller, intersection queue     *)
(* simulation, failsafe monitor and the periodic tick driver.              *)
(***************************************************************************)
EXTENDS Integers, Sequences, FiniteSets, TLC

(***************************************************************************)
(* Configuration (core/config.py, sim/config.py, sim/intersection.py)      *)
(***************************************************************************)
CYCLE_SECONDS == 90
MIN_GREEN_SECONDS == 20
MAX_GREEN_SECONDS == 70
CLEARANCE_SECONDS == 5
SENSOR_STALE_SECONDS == 60
SIM_MINUTES_PER_TICK == 1
SAT_FLOW_VEH_PER_HOUR_PER_LANE == 1900
QUEUE_HARD_CAP_PER_APPROACH == 120
MAX_QUEUE_PER_APPROACH == 80
RULES_MAX_DELTA == 20
CONGESTION_ALERT_CAPACITY_PERCENT == 80
DEFAULT_CURRENT_GREEN == 45
TOP_N == 3

YELLOW_SECONDS == CLEARANCE_SECONDS

APPROACHES == <<"N", "E", "S", "W">>

Approaches == {APPROACHES[i] : i \in 1..Len(APPROACHES)}

DEFAULT_GREEN_SECONDS == [a \in Approaches |-> IF a \in {"N", "S"} THEN 45 ELSE 20]

LANES == [a \in Approaches |-> IF a \in {"N", "S"} THEN 3 ELSE 2]

(***************************************************************************)
(* Bounds of the model                                                     *)
(***************************************************************************)
\* requested deltas are -MaxDelta..MaxDelta plus the rule engine's largest request
MaxDelta == 1

Deltas == (-MaxDelta..MaxDelta) \cup {RULES_MAX_DELTA}

\* an approach name that is not one of the four
UnknownApproach == "U"

\* the mainline approach of the adjustment scenarios
MAINLINE == "S"

\* arrivals of one approach in one tick are 0 or MaxArrivals
MaxArrivals == 120

\* the simulator is stepped for ticks 0..MaxTicks-1
MaxTicks == 2

\* the ticks without arrivals that follow them
MaxDrainTicks == 9

\* the monotonic clock is observed up to MaxTime, where it saturates
MaxTime == 61

\* the decision log keeps at most MaxLog rows
MaxLog == 1

None == -1

\* _INTERSECTIONS: the one configured intersection
INTERSECTION_ID == "SUR-4092"

\* an intersection id that is not configured and never ticks
UnknownId == "X"

TrackIds == {INTERSECTION_ID, UnknownId}

\* the clock advances by exactly the stale deadline or by one second more
TimeSteps == {SENSOR_STALE_SECONDS, SENSOR_STALE_SECONDS + 1}

\* two independently constructed demand generators
Generators == {"g1", "g2"}

\* DemandProfile(seed=42) and one other seed
DEFAULT_SEED == 42

Seeds == {DEFAULT_SEED, 7}

\* the ticks at which a generator is asked for arrivals
GenTicks == {0, 60, 120}

\* each generator is asked at most MaxCalls times after its construction
MaxCalls == 2

\* densities handed to evaluate, in tenths of a percent: idle, just below the
\* alert threshold, the threshold, the 85 % of the scenario, and full
EvalDensities == {0, 799, 800, 850, 1000}

\* queued vehicles of one approach handed to evaluate
QueueLevels == {0, 5, 10, 40}

EmptyDict == [a \in {} |-> 0]

\* queue maps handed to evaluate: every map over the four approaches, the empty
\* map, and maps that lack the mainline
EvalQueues ==
    [Approaches -> QueueLevels] \cup {EmptyDict} \cup [Approaches \ {"S"} -> {0, 5}]

\* green maps handed to evaluate: the baseline, flat plans, and the empty map
EvalGreens ==
    {DEFAULT_GREEN_SECONDS, EmptyDict}
        \cup {[a \in Approaches |-> g] : g \in {MIN_GREEN_SECONDS, 60, MAX_GREEN_SECONDS}}

\* vehicles discharged in the last tick, as handed to evaluate: none, the sum of
\* the peak means, and MaxArrivals on every approach
EvalDepartures == {0, 84, 480}

\* total queues of the intersections published to the store: densities of 50,
\* 75, 85, 100 and again 100 percent
LiveQueues == {160, 240, 272, 320, 400}

\* the deltas an operator passes to the controller, and the approaches they
\* are passed for: every approach but the mainline
OpsDeltas == {-25}

OpsApproaches == Approaches \ {"S"}

\* calls of apply_adjustment an API thread makes while the tick thread runs
MaxAdjust == 2

\* the largest maxlen a TimelineBuffer is constructed with, and the points
\* appended to one buffer
MaxCapacity == 3

MaxPoints == 5

\* the operator applies or rejects recommendations at most MaxDecisions times
MaxDecisions == 2

\* the simulator alone is stepped at most MaxSteps times
MaxSteps == 3

\* recommendation ids are handed out up to MaxRecs
MaxRecs == 4

\* the ids the store may hold: the configured intersection and three more
StoreIds == <<INTERSECTION_ID, "SUR-0002", "SUR-0003", "SUR-0004">>

StoreIdSet == {StoreIds[i] : i \in 1..Len(StoreIds)}

\* StateStore.get_live of an intersection that has no metrics yet
NoLive == [densityPercent |-> None, queueLengthVehicles |-> None, flowRateCarsPerMin |-> None]

VARIABLES
    current,                    \* SignalController._current
    baseline,                   \* SignalController._baseline
    queue,                      \* IntersectionSim._queue
    total_arrivals_this_tick,   \* IntersectionSim._total_arrivals_this_tick
    total_departures_this_tick, \* IntersectionSim._total_departures_this_tick
    now,                        \* time.monotonic()
    last_sensor_epoch,          \* failsafe._last_sensor_epoch
    system_status,              \* StateStore._system_status
    decision_log,               \* StateStore._decision_log, newest first
    tick_counter,               \* tick_loop._tick_counter
    stop_event,                 \* tick_loop._stop_event
    pc,                         \* position of the tick thread in _loop
    gen_rng,                    \* DemandProfile._rng of each generator: draws taken
    gen_out,                    \* what each generator returned, call by call
    intersections,              \* StateStore._intersections, in insertion order
    live_metrics,               \* StateStore._live_metrics
    recommendations_top,        \* StateStore._recommendations_top
    next_rec,                   \* recommendation ids handed out so far
    obtained,                   \* ids a caller got from GET /recommendations/top
    api_pc,                     \* position of an API thread inside apply_adjustment
    api_local,                  \* that call's arguments and local variables
    snap_pc,                    \* position of the tick thread among its store writes
    tick_summary,               \* the IntersectionSummary built in step 9 of _tick
    reader,                     \* what a reader's last get_snapshot returned
    boundaries,                 \* what the store held before and after each tick
    tl_buf,                     \* TimelineBuffer._buf, oldest first
    tl_maxlen,                  \* TimelineBuffer._maxlen
    tl_next,                    \* points appended to the buffer since construction
    weather,                    \* IntersectionSim._weather_temp_c, _weather_condition
    snapshots,                  \* the dicts step returned so far, oldest first
    step_local,                 \* the locals of the most recent step, per approach
    last_check,                 \* what the most recent check_failsafe returned
    ret                         \* the last call observed by its caller

ctlVars == <<current, baseline>>

simVars == <<queue, total_arrivals_this_tick, total_departures_this_tick>>

fsVars == <<now, last_sensor_epoch, system_status>>

loopVars == <<tick_counter, stop_event, pc>>

genVars == <<gen_rng, gen_out>>

recVars == <<intersections, live_metrics, recommendations_top, next_rec, obtained>>

apiVars == <<api_pc, api_local>>

snapVars == <<snap_pc, tick_summary, reader, boundaries>>

tlVars == <<tl_buf, tl_maxlen, tl_next>>

extVars == <<apiVars, snapVars, tlVars>>

stepVars == <<weather, snapshots, step_local>>

vars == <<current, baseline, queue, total_arrivals_this_tick, total_departures_this_tick,
          now, last_sensor_epoch, system_status, decision_log, tick_counter, stop_event,
          pc, gen_rng, gen_out, intersections, live_metrics, recommendations_top,
          next_rec, obtained, api_pc, api_local, snap_pc, tick_summary, reader,
          boundaries, tl_buf, tl_maxlen, tl_next, weather, snapshots, step_local,
          last_check, ret>>


(***************************************************************************)
(* Arithmetic helpers                                                      *)
(***************************************************************************)
Max(a, b) == IF a >= b THEN a ELSE b

Min(a, b) == IF a <= b THEN a ELSE b

Abs(x) == IF x < 0 THEN -x ELSE x

\* Python round() of the rational n/m (m > 0): nearest integer, ties to even
Round(n, m) ==
    LET q == n \div m
        r == n % m
    IN  IF 2 * r < m THEN q
        ELSE IF 2 * r > m THEN q + 1
        ELSE IF q % 2 = 0 THEN q ELSE q + 1

RECURSIVE SumOver(_, _)
SumOver(f, S) ==
    IF S = {} THEN 0
    ELSE LET x == CHOOSE y \in S : TRUE IN f[x] + SumOver(f, S \ {x})

SumGreens(plan) == SumOver(plan, Approaches)

(***************************************************************************)
(* SignalController (sim/controller.py)                                    *)
(***************************************************************************)
\* total_weight = float(others_total) if others_total > 0 else 1.0
TotalWeight(others_total) == IF others_total > 0 THEN others_total ELSE 1

\* raw = cur[a] - d * (cur[a] / total_weight), as the rational num/den
RawNum(cur, a, d, others_total) ==
    cur[a] * TotalWeight(others_total) - d * cur[a]

\* feasibility test of one candidate d inside _clamp_delta
Feasible(cur, approach, d, others_total) ==
    /\ MIN_GREEN_SECONDS <= cur[approach] + d
    /\ cur[approach] + d <= MAX_GREEN_SECONDS
    /\ \A a \in Approaches \ {approach} :
          LET r == Round(RawNum(cur, a, d, others_total), TotalWeight(others_total))
          IN  MIN_GREEN_SECONDS <= r /\ r <= MAX_GREEN_SECONDS

\* _clamp_delta: the first feasible d scanning |d| = |delta| down to 1, else 0
ClampDelta(cur, approach, delta, others_total) ==
    IF delta = 0 THEN 0
    ELSE LET sign == IF delta > 0 THEN 1 ELSE -1
             ok == {k \in 1..Abs(delta) : Feasible(cur, approach, sign * k, others_total)}
         IN  IF ok = {} THEN 0
             ELSE sign * (CHOOSE k \in ok : \A j \in ok : j <= k)

\* the other approaches absorbing equal thirds of the delta
ClampedOtherEqualSplit(cur, a, delta, others_total) ==
    Max(MIN_GREEN_SECONDS, Min(MAX_GREEN_SECONDS, Round(3 * cur[a] - delta, 3)))

\* clamped = int(round(max(MIN, min(MAX, raw))))
ClampedOther(cur, a, delta, others_total) ==
    LET n == RawNum(cur, a, delta, others_total)
        m == TotalWeight(others_total)
    IN  IF n <= MIN_GREEN_SECONDS * m THEN MIN_GREEN_SECONDS
        ELSE IF n >= MAX_GREEN_SECONDS * m THEN MAX_GREEN_SECONDS
        ELSE Round(n, m)

ClampGreen(v) == Max(MIN_GREEN_SECONDS, Min(MAX_GREEN_SECONDS, v))

\* _enforce_cycle with the nudge left unclamped
EnforceCycleUnclamped(cur, priority_approach) ==
    LET total == SumGreens(cur)
        target_total == CYCLE_SECONDS - YELLOW_SECONDS * Len(APPROACHES)
        drift == total - target_total
    IN  IF drift = 0 THEN cur
        ELSE [cur EXCEPT ![priority_approach] = cur[priority_approach] - drift]

\* _enforce_cycle: nudge the priority approach by the drift, clamped
EnforceCycle(cur, priority_approach) ==
    LET total == SumGreens(cur)
        target_total == CYCLE_SECONDS - YELLOW_SECONDS * Len(APPROACHES)
        drift == total - target_total
    IN  IF drift = 0 THEN cur
        ELSE [cur EXCEPT ![priority_approach] = ClampGreen(cur[priority_approach] - drift)]

\* apply_adjustment without the early return on a zero delta
AdjustedPlanNoEarlyReturn(cur, approach, delta_seconds) ==
    LET others == Approaches \ {approach}
        current_others_total == SumOver(cur, others)
        delta == ClampDelta(cur, approach, delta_seconds, current_others_total)
        new_others == [a \in others |-> ClampedOther(cur, a, delta, current_others_total)]
        actual_taken == SumOver([a \in others |-> cur[a] - new_others[a]], others)
        new_target_adjusted == ClampGreen(cur[approach] + actual_taken)
        assigned == [a \in Approaches |->
                        IF a = approach THEN new_target_adjusted ELSE new_others[a]]
    IN  EnforceCycle(assigned, approach)

\* the plan apply_adjustment leaves in _current for a known approach
AdjustedPlan(cur, approach, delta_seconds) ==
    LET others == Approaches \ {approach}
        current_others_total == SumOver(cur, others)
        delta == ClampDelta(cur, approach, delta_seconds, current_others_total)
    IN  IF delta = 0 THEN cur
        ELSE LET new_others == [a \in others |->
                                   ClampedOther(cur, a, delta, current_others_total)]
                 actual_taken == SumOver([a \in others |-> cur[a] - new_others[a]], others)
                 new_target_adjusted == ClampGreen(cur[approach] + actual_taken)
                 assigned == [a \in Approaches |->
                                 IF a = approach THEN new_target_adjusted ELSE new_others[a]]
             IN  EnforceCycle(assigned, approach)

\* what the caller of an operation observes: the operation, its arguments, the
\* plan before the call, the error raised, the value returned, and the value the
\* previous call returned when it was the same operation on the same argument
Call(op, arg, delta, error, result) ==
    [op |-> op, arg |-> arg, delta |-> delta, before |-> current,
     error |-> error, result |-> result,
     prev |-> IF ret.op = op /\ ret.arg = arg THEN ret.result ELSE "-"]

\* apply_adjustment on a controller whose _baseline is the same dict as _current
apply_adjustment_aliased(approach, delta_seconds) ==
    IF approach \notin Approaches
    THEN /\ ret' = Call("apply_adjustment", approach, delta_seconds, "ValueError", "-")
         /\ UNCHANGED <<current, baseline>>
    ELSE /\ current' = AdjustedPlan(current, approach, delta_seconds)
         /\ ret' = Call("apply_adjustment", approach, delta_seconds, "none", "plan")
         /\ baseline' = current'

\* apply_adjustment returning the plan for an unknown approach instead of raising
apply_adjustment_silent(approach, delta_seconds) ==
    IF approach \notin Approaches
    THEN /\ ret' = Call("apply_adjustment", approach, delta_seconds, "none", "plan")
         /\ UNCHANGED <<current, baseline>>
    ELSE /\ current' = AdjustedPlan(current, approach, delta_seconds)
         /\ ret' = Call("apply_adjustment", approach, delta_seconds, "none", "plan")
         /\ UNCHANGED baseline

\* SignalController.apply_adjustment
apply_adjustment(approach, delta_seconds) ==
    IF approach \notin Approaches
    THEN /\ ret' = Call("apply_adjustment", approach, delta_seconds, "ValueError", "-")
         /\ UNCHANGED <<current, baseline>>
    ELSE /\ current' = AdjustedPlan(current, approach, delta_seconds)
         /\ ret' = Call("apply_adjustment", approach, delta_seconds, "none", "plan")
         /\ UNCHANGED baseline

\* SignalController.revert_baseline
revert_baseline ==
    /\ current' = baseline
    /\ ret' = Call("revert_baseline", "-", 0, "none", "plan")
    /\ UNCHANGED baseline

\* others = [a for a in _APPROACHES if a != approach]
Others(approach) == SelectSeq(APPROACHES, LAMBDA a : a # approach)

\* an API thread that is in no controller call
NoCall ==
    [approach |-> "-", delta |-> 0, start |-> DEFAULT_GREEN_SECONDS, new_target |-> 0,
     new_others |-> DEFAULT_GREEN_SECONDS, written |-> 0, calls |-> 0]

InitApi ==
    /\ api_pc = "idle"
    /\ api_local = NoCall
    /\ snap_pc = "idle"
    /\ tick_summary = [intersectionId |-> INTERSECTION_ID,
                       greenSeconds |-> DEFAULT_GREEN_SECONDS["S"]]
    /\ reader = [liveMetrics |-> [i \in StoreIdSet |-> NoLive],
                 intersections |-> <<>>]
    /\ boundaries = {reader}

\* SignalController.__init__ with the default baseline
InitController ==
    /\ baseline = DEFAULT_GREEN_SECONDS
    /\ current = DEFAULT_GREEN_SECONDS

(***************************************************************************)
(* IntersectionSim (sim/intersection.py)                                   *)
(***************************************************************************)
\* _service_capacity with green_seconds // CYCLE_SECONDS as the green ratio
CapacityNumFloorRatio(approach, green_seconds) ==
    SAT_FLOW_VEH_PER_HOUR_PER_LANE * LANES[approach]
        * (green_seconds \div CYCLE_SECONDS) * CYCLE_SECONDS * SIM_MINUTES_PER_TICK

\* _service_capacity as the rational CapacityNum / CapacityDen
CapacityNum(approach, green_seconds) ==
    SAT_FLOW_VEH_PER_HOUR_PER_LANE * LANES[approach] * green_seconds * SIM_MINUTES_PER_TICK

CapacityDen == CYCLE_SECONDS * 60

\* dep = round(min(demand, capacity) + 0.5): the capacity rounded up
DeparturesRoundedUp(approach, green_seconds, demand) ==
    IF demand * CapacityDen <= CapacityNum(approach, green_seconds)
    THEN demand
    ELSE (CapacityNum(approach, green_seconds) + CapacityDen - 1) \div CapacityDen

\* dep = int(min(demand, capacity))
Departures(approach, green_seconds, demand) ==
    IF demand * CapacityDen <= CapacityNum(approach, green_seconds)
    THEN demand
    ELSE CapacityNum(approach, green_seconds) \div CapacityDen

\* the queue of one approach before the clamp to [0, hard cap]
RawQueue(approach, green_seconds, q, arr) ==
    q + arr - Departures(approach, green_seconds, q + arr)

\* the queue update without the hard cap
NewQueueUncapped(approach, green_seconds, q, arr) ==
    Max(0, RawQueue(approach, green_seconds, q, arr))

\* the queue one approach is left with by step
NewQueue(approach, green_seconds, q, arr) ==
    LET demand == q + arr
        dep == Departures(approach, green_seconds, demand)
    IN  Min(QUEUE_HARD_CAP_PER_APPROACH, Max(0, demand - dep))

StepQueue(q, plan, arrivals) ==
    [a \in Approaches |-> NewQueue(a, plan[a], q[a], arrivals[a])]

StepDepartures(q, plan, arrivals) ==
    SumOver([a \in Approaches |-> Departures(a, plan[a], q[a] + arrivals[a])], Approaches)

\* the longest queue any approach would hold after the step if nothing capped it
LargestRawQueue(q, plan, arrivals) ==
    LET raws == {RawQueue(a, plan[a], q[a], arrivals[a]) : a \in Approaches}
    IN  CHOOSE r \in raws : \A x \in raws : x <= r

\* DemandProfile.get_arrivals: a non-negative integer per approach
ArrivalLevels == {0, MaxArrivals}

ZeroArrivals == [a \in Approaches |-> 0]

ArrivalVectors ==
    {[a \in Approaches |-> lvl] : lvl \in ArrivalLevels}
        \cup {[a \in Approaches |-> IF a = b THEN MaxArrivals ELSE 0] : b \in Approaches}

\* IntersectionSim.step
step(tick, arrivals) ==
    /\ queue' = StepQueue(queue, current, arrivals)
    /\ total_arrivals_this_tick' = SumOver(arrivals, Approaches)
    /\ total_departures_this_tick' = StepDepartures(queue, current, arrivals)

\* the locals of the loop in step, kept per approach
StepLocals(q, plan, arrivals) ==
    [queue |-> q, plan |-> plan, arrivals |-> arrivals,
     dep |-> [a \in Approaches |-> Departures(a, plan[a], q[a] + arrivals[a])]]

\* total queues at which total / 320 * 100.0, computed in doubles, falls just
\* below a tie that the exact quotient hits
DENSITY_LOW_TIES == {92, 196, 204}

\* the density without the min(100.0, ...)
DensityPercentUncapped(total_queue) ==
    LET exact == Round(total_queue * 1000, MAX_QUEUE_PER_APPROACH * Len(APPROACHES))
    IN  IF total_queue \in DENSITY_LOW_TIES THEN exact - 1 ELSE exact

\* _build_snapshot: round(min(100.0, total_queue / max_total_queue * 100.0), 1),
\* in tenths of a percent
DensityPercent(total_queue) ==
    LET exact == Round(total_queue * 1000, MAX_QUEUE_PER_APPROACH * Len(APPROACHES))
    IN  Min(1000, IF total_queue \in DENSITY_LOW_TIES THEN exact - 1 ELSE exact)

\* _density_to_speed: free_flow and jam_speed, km/h
FREE_FLOW_SPEED == 60

JAM_SPEED == 10

\* total queues at which the speed, computed in doubles, falls just above a tie
\* that the exact value hits
SPEED_HIGH_TIES == {184}

\* round(_density_to_speed(min(100.0, total_queue / max_total_queue * 100.0)), 1),
\* in tenths of a km/h
AvgSpeedKmh(total_queue) ==
    LET max_total_queue == MAX_QUEUE_PER_APPROACH * Len(APPROACHES)
        capped == Min(total_queue, max_total_queue)
        exact == Round(FREE_FLOW_SPEED * 10 * max_total_queue
                          - (FREE_FLOW_SPEED - JAM_SPEED) * 10 * capped, max_total_queue)
    IN  Max(JAM_SPEED * 10, IF total_queue \in SPEED_HIGH_TIES THEN exact + 1 ELSE exact)

\* DEFAULT_WEATHER_TEMP_C, DEFAULT_WEATHER_CONDITION
DEFAULT_WEATHER == [tempC |-> 31, condition |-> "Rain"]

\* what get_weather_now may hand to set_weather
Weathers == {DEFAULT_WEATHER, [tempC |-> 27, condition |-> "Cloudy"]}

\* IntersectionSim.set_weather
set_weather(temp_c, condition) ==
    weather' = [tempC |-> temp_c, condition |-> condition]

\* _build_snapshot that reports the default weather
build_snapshot_default_weather(q, arrivals_this_tick, wx) ==
    [currentVolume |-> arrivals_this_tick
                          * Max(1, CYCLE_SECONDS \div (SIM_MINUTES_PER_TICK * 60)),
     avgSpeedKmh |-> AvgSpeedKmh(SumOver(q, Approaches)),
     queueLengthVehicles |-> SumOver(q, Approaches),
     weatherTempC |-> DEFAULT_WEATHER.tempC,
     weatherCondition |-> DEFAULT_WEATHER.condition,
     densityPercent |-> DensityPercent(SumOver(q, Approaches))]

\* _build_snapshot; densityPercent and avgSpeedKmh in tenths
build_snapshot(q, arrivals_this_tick, wx) ==
    [currentVolume |-> arrivals_this_tick
                          * Max(1, CYCLE_SECONDS \div (SIM_MINUTES_PER_TICK * 60)),
     avgSpeedKmh |-> AvgSpeedKmh(SumOver(q, Approaches)),
     queueLengthVehicles |-> SumOver(q, Approaches),
     weatherTempC |-> wx.tempC,
     weatherCondition |-> wx.condition,
     densityPercent |-> DensityPercent(SumOver(q, Approaches))]

\* IntersectionSim.__init__
InitSim ==
    /\ InitController
    /\ queue = [a \in Approaches |-> 0]
    /\ total_arrivals_this_tick = 0
    /\ total_departures_this_tick = 0
    /\ weather = DEFAULT_WEATHER
    /\ snapshots = <<>>
    /\ step_local = StepLocals([a \in Approaches |-> 0], DEFAULT_GREEN_SECONDS,
                               [a \in Approaches |-> 0])

(***************************************************************************)
(* DemandProfile (sim/demand.py)                                           *)
(***************************************************************************)
\* _BASE_PEAK_ARRIVALS, vehicles per tick at peak
BASE_PEAK_ARRIVALS == [a \in Approaches |-> IF a \in {"N", "S"} THEN 28 ELSE 14]

\* _OFF_PEAK_FRACTION = 0.35 and _NOISE_FRACTION = 0.12, in hundredths
OFF_PEAK_FRACTION == 35

NOISE_FRACTION == 12

RAMP_TICKS == 120

\* _ramp_factor in quarters, at the ticks where the raised cosine is rational
RampFactor(tick) ==
    IF tick <= 0 THEN 0
    ELSE IF tick >= RAMP_TICKS THEN 4
    ELSE CASE 3 * tick = RAMP_TICKS -> 1
           [] 2 * tick = RAMP_TICKS -> 2
           [] 3 * tick = 2 * RAMP_TICKS -> 3

\* mean = _OFF_PEAK_FRACTION * peak + ramp * (1 - _OFF_PEAK_FRACTION) * peak,
\* in four-hundredths of a vehicle
Mean(approach, tick) ==
    BASE_PEAK_ARRIVALS[approach]
        * (OFF_PEAK_FRACTION * 4 + RampFactor(tick) * (100 - OFF_PEAK_FRACTION))

\* standard normal deviates, in hundredths, that a Mersenne Twister stream yields
GAUSS_TABLE == <<0, 100, -100, 250, -900, 37, -163>>

\* the n-th deviate (n = 0, 1, ...) of random.Random(seed).gauss: a fixed
\* function of the seed and of the number of draws taken before it
Draw(seed, n) == GAUSS_TABLE[(((seed + 3) * (n + 1) + n * n) % Len(GAUSS_TABLE)) + 1]

\* max(0, round(mean + noise)) with noise = z * _NOISE_FRACTION * mean
ArrivalCount(approach, tick, z) ==
    Max(0, Round(Mean(approach, tick) * (10000 + NOISE_FRACTION * z), 4000000))

\* the position of an approach in the iteration over _BASE_PEAK_ARRIVALS
ApproachIndex(approach) == CHOOSE i \in 1..Len(APPROACHES) : APPROACHES[i] = approach

\* a generator drawing from the random module's shared generator
SharedRng(generator) == "module"

\* self._rng: the random.Random each DemandProfile constructs for itself
OwnRng(generator) == generator

\* DemandProfile.__init__(seed)
DemandInit(generator, seed) ==
    /\ gen_rng' = [gen_rng EXCEPT ![OwnRng(generator)] = [seed |-> seed, draws |-> 0]]
    /\ gen_out' = [gen_out EXCEPT ![generator] = <<>>]

\* DemandProfile.get_arrivals(tick)
get_arrivals(generator, tick) ==
    LET rng == gen_rng[OwnRng(generator)]
        arrivals == [a \in Approaches |->
                        ArrivalCount(a, tick,
                                     Draw(rng.seed, rng.draws + ApproachIndex(a) - 1))]
    IN  /\ gen_rng' = [gen_rng EXCEPT ![OwnRng(generator)].draws = @ + Len(APPROACHES)]
        /\ gen_out' = [gen_out EXCEPT ![generator] =
                          Append(@, [tick |-> tick, arrivals |-> arrivals])]

\* two generators constructed with the default seed; the random module's own
\* generator is seeded at import
InitDemand ==
    /\ gen_rng = [g \in Generators \cup {"module"} |-> [seed |-> DEFAULT_SEED, draws |-> 0]]
    /\ gen_out = [g \in Generators |-> <<>>]

(***************************************************************************)
(* TimelineBuffer (sim/timeline.py)                                        *)
(***************************************************************************)
\* an append that makes room in a full deque by dropping its newest item
deque_append_drop_newest(buf, maxlen, point) ==
    IF maxlen = 0 THEN buf
    ELSE IF Len(buf) = maxlen THEN Append(SubSeq(buf, 1, Len(buf) - 1), point)
    ELSE Append(buf, point)

\* deque(maxlen).append: a full deque drops its leftmost item first, a deque of
\* maxlen 0 takes nothing
deque_append(buf, maxlen, point) ==
    IF maxlen = 0 THEN buf
    ELSE IF Len(buf) = maxlen THEN Append(Tail(buf), point)
    ELSE Append(buf, point)

\* points[start:] of a Python list: a negative start counts from the end and is
\* clipped to the list, and -0 is 0
SliceFrom(points, start) ==
    LET from == IF start < 0 THEN Max(0, Len(points) + start) ELSE Min(start, Len(points))
    IN  SubSeq(points, from + 1, Len(points))

\* TimelineBuffer.last: points[-n:] if n < len(points) else points
last(buf, n) == IF n < Len(buf) THEN SliceFrom(buf, -n) ELSE buf

\* TimelineBuffer.__init__
TimelineInit(maxlen) ==
    /\ tl_buf' = <<>>
    /\ tl_maxlen' = maxlen
    /\ tl_next' = 0

InitTimeline ==
    /\ tl_buf = <<>>
    /\ tl_maxlen = MaxCapacity
    /\ tl_next = 0

(***************************************************************************)
(* StateStore (app/state_store.py)                                         *)
(***************************************************************************)
\* _default_system_status
DefaultSystemStatus ==
    [systemOperational |-> TRUE, mode |-> "AI_ACTIVE", live |-> TRUE, message |-> "init"]

\* StateStore.__init__
InitStore ==
    /\ system_status = DefaultSystemStatus
    /\ decision_log = <<>>
    /\ intersections = <<>>
    /\ live_metrics = [i \in StoreIdSet |-> NoLive]
    /\ recommendations_top = <<>>
    /\ next_rec = 0
    /\ obtained = {}

\* StateStore.get_snapshot, reduced to the live metrics and the summaries
get_snapshot == [liveMetrics |-> live_metrics, intersections |-> intersections]

\* StateStore.append_decision_log: insert(0, row)
AppendDecisionLog(log, row) == <<row>> \o log

(***************************************************************************)
(* Rule engine (rec/safety.py, rec/rules.py)                               *)
(***************************************************************************)
\* _MAX_TOTAL_GREEN: the green budget of one cycle across all approaches
MAX_TOTAL_GREEN == CYCLE_SECONDS - CLEARANCE_SECONDS

\* the errors validate_plan collects for a plan
PlanErrors(greens_dict) ==
    {<<a, "below minimum">> : a \in {b \in DOMAIN greens_dict :
                                        greens_dict[b] < MIN_GREEN_SECONDS}}
    \cup {<<a, "exceeds maximum">> : a \in {b \in DOMAIN greens_dict :
                                             greens_dict[b] > MAX_GREEN_SECONDS}}
    \cup (IF SumOver(greens_dict, DOMAIN greens_dict) > MAX_TOTAL_GREEN
          THEN {<<"total", "exceeds budget">>} ELSE {})

\* validate_plan: valid exactly when no error was collected
validate_plan(greens_dict) == PlanErrors(greens_dict) = {}

\* clamp_green_seconds
clamp_green_seconds(value) == Max(MIN_GREEN_SECONDS, Min(MAX_GREEN_SECONDS, value))

\* dict.get(key, default) of a dict keyed by approaches
DictGet(dict, key, default) == IF key \in DOMAIN dict THEN dict[key] ELSE default

\* the keys of a dict in iteration order: the approaches it holds, N, E, S, W
DictKeys(dict) == SelectSeq(APPROACHES, LAMBDA a : a \in DOMAIN dict)

\* max(dict.values()) of a non-empty dict
MaxValue(dict) == CHOOSE v \in {dict[a] : a \in DOMAIN dict} : \A a \in DOMAIN dict : dict[a] <= v

\* max(dict, key=...): the first key, in iteration order, that holds the largest value
FirstMaxKey(dict) ==
    LET keys == DictKeys(dict)
        i == CHOOSE k \in 1..Len(keys) :
                /\ dict[keys[k]] = MaxValue(dict)
                /\ \A j \in 1..(k - 1) : dict[keys[j]] < MaxValue(dict)
    IN  keys[i]

\* _select_target_approach without the preference for the mainline
select_target_first_max(queue_per_approach) ==
    IF DOMAIN queue_per_approach = {} THEN "S"
    ELSE FirstMaxKey(queue_per_approach)

\* _select_target_approach
select_target_approach(queue_per_approach) ==
    IF DOMAIN queue_per_approach = {} THEN "S"
    ELSE IF DictGet(queue_per_approach, "S", 0) = MaxValue(queue_per_approach) THEN "S"
    ELSE FirstMaxKey(queue_per_approach)

\* _proportional_delta without the floor of one second
proportional_delta_unfloored(queue_approach, total_queue) ==
    Min(RULES_MAX_DELTA, Round(RULES_MAX_DELTA * queue_approach, Max(1, total_queue)))

\* _proportional_delta
proportional_delta(queue_approach, total_queue) ==
    Max(1, Min(RULES_MAX_DELTA,
               Round(RULES_MAX_DELTA * queue_approach, Max(1, total_queue))))

\* total queues at which total / 480.0, computed in doubles, is rounded to one
\* decimal away from the even neighbour of the exact tie, with the tenths it
\* is rounded to
DELAY_TIES ==
    [total \in {24, 72, 168, 216, 312, 456} |->
        IF total = 24 THEN 1 ELSE IF total = 72 THEN 1 ELSE IF total = 168 THEN 3
        ELSE IF total = 216 THEN 5 ELSE IF total = 312 THEN 7 ELSE 9]

\* _predicted_delay, in tenths of a minute, for departures of 0, 1, 84 and 480
\* vehicles per tick
predicted_delay(total_queue, departures_per_tick) ==
    IF departures_per_tick = 480 /\ total_queue \in DOMAIN DELAY_TIES
    THEN DELAY_TIES[total_queue]
    ELSE Round(total_queue * SIM_MINUTES_PER_TICK * 10, Max(1, departures_per_tick))

\* what evaluate returns below the alert threshold
NoRec == [status |-> "NONE"]

\* the Recommendation evaluate builds once the threshold test has passed
BuildRecommendation(intersection_id, queue_per_approach, current_greens, departures_per_tick, rec_id) ==
    LET total_queue == SumOver(queue_per_approach, DOMAIN queue_per_approach)
        approach == select_target_approach(queue_per_approach)
        current_green == DictGet(current_greens, approach, DEFAULT_CURRENT_GREEN)
        delta == proportional_delta(DictGet(queue_per_approach, approach, 0), total_queue)
        recommended_green == clamp_green_seconds(current_green + delta)
        actual_delta == recommended_green - current_green
    IN  [recommendationId |-> rec_id,
         status |-> "PENDING",
         alertTitle |-> "Critical Alert",
         targetIntersectionId |-> intersection_id,
         targetApproach |-> approach,
         predictedDelayIfNoActionMinutes |-> predicted_delay(total_queue, departures_per_tick),
         currentGreenSeconds |-> current_green,
         recommendedGreenSeconds |-> recommended_green,
         deltaSeconds |-> actual_delta]

\* evaluate reporting the delta it asked for instead of the delta after the clamp
evaluate_requested_delta(intersection_id, density_percent, queue_per_approach, current_greens, departures_per_tick, rec_id) ==
    IF density_percent < CONGESTION_ALERT_CAPACITY_PERCENT * 10 THEN NoRec
    ELSE LET rec == BuildRecommendation(intersection_id, queue_per_approach,
                                        current_greens, departures_per_tick, rec_id)
         IN  [rec EXCEPT !.deltaSeconds =
                 proportional_delta(DictGet(queue_per_approach, rec.targetApproach, 0),
                                    SumOver(queue_per_approach, DOMAIN queue_per_approach))]

\* evaluate returning None at the threshold itself
evaluate_above_threshold(intersection_id, density_percent, queue_per_approach, current_greens, departures_per_tick, rec_id) ==
    IF density_percent <= CONGESTION_ALERT_CAPACITY_PERCENT * 10 THEN NoRec
    ELSE BuildRecommendation(intersection_id, queue_per_approach, current_greens,
                             departures_per_tick, rec_id)

\* evaluate; density_percent is in tenths of a percent
evaluate(intersection_id, density_percent, queue_per_approach, current_greens, departures_per_tick, rec_id) ==
    IF density_percent < CONGESTION_ALERT_CAPACITY_PERCENT * 10 THEN NoRec
    ELSE BuildRecommendation(intersection_id, queue_per_approach, current_greens,
                             departures_per_tick, rec_id)

(***************************************************************************)
(* Recommender (rec/recommender.py) over the state store                   *)
(***************************************************************************)
\* the LiveMetrics the tick stores for a total queue and the arrivals of the tick
LiveMetrics(total_queue, arrivals_this_tick) ==
    [densityPercent |-> DensityPercent(total_queue), queueLengthVehicles |-> total_queue,
     flowRateCarsPerMin |-> arrivals_this_tick \div SIM_MINUTES_PER_TICK]

\* StateStore.update_live
update_live(live, intersection_id, metrics) == [live EXCEPT ![intersection_id] = metrics]

\* StateStore.upsert_intersection: a dict assignment keeps the position of a
\* key it already holds and appends a new one
upsert_intersection(known, summary) ==
    IF \E k \in 1..Len(known) : known[k].intersectionId = summary.intersectionId
    THEN [k \in 1..Len(known) |->
             IF known[k].intersectionId = summary.intersectionId THEN summary ELSE known[k]]
    ELSE Append(known, summary)

\* _build_intersection_summary: the S approach stands for the whole plan
IntersectionSummary(intersection_id, plan) ==
    [intersectionId |-> intersection_id, greenSeconds |-> plan["S"]]

\* weights of the fallback split in _get_queue_per_approach
QUEUE_WEIGHTS == [a \in Approaches |-> IF a \in {"N", "S"} THEN 3 ELSE 2]

\* _get_queue_per_approach: the store snapshot has no queuePerApproach key, so
\* the total is split by the weights
get_queue_per_approach(total_queue) ==
    [a \in Approaches |->
        Round(total_queue * QUEUE_WEIGHTS[a], SumOver(QUEUE_WEIGHTS, Approaches))]

\* _extract_greens of the flat plan shape: the one green for every approach
extract_greens(flat_green, queue_per_approach) ==
    [a \in DOMAIN queue_per_approach |-> flat_green]

\* the loop of generate_top_recommendations from the k-th intersection on
RECURSIVE Candidates(_, _, _, _)
Candidates(known, live, k, rec_id) ==
    IF k > Len(known) THEN <<>>
    ELSE LET iid == known[k].intersectionId
             m == live[iid]
         IN  IF m = NoLive THEN Candidates(known, live, k + 1, rec_id)
             ELSE LET q == get_queue_per_approach(m.queueLengthVehicles)
                      rec == evaluate(iid, m.densityPercent, q,
                                      extract_greens(known[k].greenSeconds, q),
                                      m.flowRateCarsPerMin * SIM_MINUTES_PER_TICK, rec_id)
                  IN  IF rec = NoRec THEN Candidates(known, live, k + 1, rec_id)
                      ELSE <<[rec |-> rec, density |-> m.densityPercent,
                              queue |-> m.queueLengthVehicles]>>
                               \o Candidates(known, live, k + 1, rec_id + 1)

\* (density, queue) of x is smaller than that of y
KeyLess(x, y) ==
    x.density < y.density \/ (x.density = y.density /\ x.queue < y.queue)

\* the stable sort without reverse=True: smallest key first
RECURSIVE SortAscending(_)
SortAscending(cands) ==
    IF cands = <<>> THEN <<>>
    ELSE LET n == Len(cands)
             x == cands[n]
             sorted == SortAscending(SubSeq(cands, 1, n - 1))
             before == Cardinality({i \in 1..(n - 1) : ~KeyLess(x, sorted[i])})
         IN  SubSeq(sorted, 1, before) \o <<x>> \o SubSeq(sorted, before + 1, n - 1)

\* candidates.sort(key=(density, queue), reverse=True): a stable sort, largest
\* key first, equal keys in their original order
RECURSIVE SortDescending(_)
SortDescending(cands) ==
    IF cands = <<>> THEN <<>>
    ELSE LET n == Len(cands)
             x == cands[n]
             sorted == SortDescending(SubSeq(cands, 1, n - 1))
             before == Cardinality({i \in 1..(n - 1) : ~KeyLess(sorted[i], x)})
         IN  SubSeq(sorted, 1, before) \o <<x>> \o SubSeq(sorted, before + 1, n - 1)

\* _build_advisory_recommendation
build_advisory_recommendation(summary, live, rec_id) ==
    LET m == live[summary.intersectionId]
    IN  IF m = NoLive THEN NoRec
        ELSE LET q == get_queue_per_approach(m.queueLengthVehicles)
                 current_greens == extract_greens(summary.greenSeconds, q)
                 target_approach == FirstMaxKey(q)
                 current_green == DictGet(current_greens, target_approach,
                                          DEFAULT_CURRENT_GREEN)
                 delta == IF m.densityPercent < 700 THEN 5 ELSE 8
             IN  [recommendationId |-> rec_id,
                  status |-> "PENDING",
                  alertTitle |-> "Advisory",
                  targetIntersectionId |-> summary.intersectionId,
                  targetApproach |-> target_approach,
                  currentGreenSeconds |-> current_green,
                  recommendedGreenSeconds |-> current_green + delta,
                  deltaSeconds |-> delta]

\* generate_top_recommendations
generate_top_recommendations(known, live, rec_id) ==
    LET candidates == SortDescending(Candidates(known, live, 1, rec_id))
        top == [k \in 1..Min(TOP_N, Len(candidates)) |-> candidates[k].rec]
    IN  IF top = <<>> /\ known # <<>>
        THEN LET advisory == build_advisory_recommendation(known[1], live, rec_id)
             IN  IF advisory = NoRec THEN <<>> ELSE <<advisory>>
        ELSE top

\* the recommendation ids one run of generate_top_recommendations uses up
IdsUsed(known, live) ==
    LET n == Len(Candidates(known, live, 1, 0))
    IN  IF n > 0 THEN n
        ELSE IF known # <<>> /\ live[known[1].intersectionId] # NoLive THEN 1 ELSE 0

\* a lookup that falls back to the first recommendation for an id it does not hold
FindRecommendationOrFirst(recs, recommendation_id) ==
    IF \E k \in 1..Len(recs) : recs[k].recommendationId = recommendation_id
    THEN CHOOSE k \in 1..Len(recs) :
            /\ recs[k].recommendationId = recommendation_id
            /\ \A j \in 1..(k - 1) : recs[j].recommendationId # recommendation_id
    ELSE Min(1, Len(recs))

\* position of the first recommendation with the id, 0 when there is none
FindRecommendation(recs, recommendation_id) ==
    IF \E k \in 1..Len(recs) : recs[k].recommendationId = recommendation_id
    THEN CHOOSE k \in 1..Len(recs) :
            /\ recs[k].recommendationId = recommendation_id
            /\ \A j \in 1..(k - 1) : recs[j].recommendationId # recommendation_id
    ELSE 0

\* StateStore.apply_recommendation / reject_recommendation: the entry found gets
\* the new status in place
SetStatus(recs, recommendation_id, status) ==
    LET k == FindRecommendation(recs, recommendation_id)
    IN  IF k = 0 THEN recs ELSE [recs EXCEPT ![k].status = status]

(***************************************************************************)
(* Failsafe monitor (app/failsafe.py)                                      *)
(***************************************************************************)
\* the monotonic clock after dt more seconds
Advance(t, dt) == Min(MaxTime, t + dt)

\* the stale test with >= in place of >
IsStaleInclusive(last_epoch, t) ==
    last_epoch = None \/ (t - last_epoch) >= SENSOR_STALE_SECONDS

\* last_epoch is None or (now - last_epoch) > SENSOR_STALE_SECONDS
IsStale(last_epoch, t) ==
    last_epoch = None \/ (t - last_epoch) > SENSOR_STALE_SECONDS

\* the system status check_failsafe leaves behind
FailsafeStatus(status, stale) ==
    IF stale
    THEN [status EXCEPT !.mode = "LOCAL_FALLBACK", !.systemOperational = TRUE,
                        !.message = "stale"]
    ELSE [status EXCEPT !.mode = "AI_ACTIVE", !.systemOperational = TRUE]

FailsafeMode(stale) == IF stale THEN "LOCAL_FALLBACK" ELSE "AI_ACTIVE"

\* the seconds since the last record that a check observes (None: never recorded)
Elapsed(last_epoch, t) == IF last_epoch = None THEN None ELSE t - last_epoch

\* record_sensor_tick
record_sensor_tick(intersection_id) ==
    /\ last_sensor_epoch' = [last_sensor_epoch EXCEPT ![intersection_id] = now]
    /\ ret' = Call("record_sensor_tick", intersection_id, 0, "none", "-")

\* check_failsafe that restarts the stale timer when it falls back
check_failsafe_rearm(intersection_id) ==
    LET stale == IsStale(last_sensor_epoch[intersection_id], now)
    IN  /\ current' = IF stale THEN baseline ELSE current
        /\ system_status' = FailsafeStatus(system_status, stale)
        /\ last_sensor_epoch' = IF stale
                                THEN [last_sensor_epoch EXCEPT ![intersection_id] = now]
                                ELSE last_sensor_epoch
        /\ ret' = Call("check_failsafe", intersection_id,
                       Elapsed(last_sensor_epoch[intersection_id], now),
                       "none", FailsafeMode(stale))
        /\ last_check' = FailsafeMode(stale)
        /\ UNCHANGED baseline

\* check_failsafe on the controller
check_failsafe(intersection_id) ==
    LET stale == IsStale(last_sensor_epoch[intersection_id], now)
    IN  /\ current' = IF stale THEN baseline ELSE current
        /\ system_status' = FailsafeStatus(system_status, stale)
        /\ ret' = Call("check_failsafe", intersection_id,
                       Elapsed(last_sensor_epoch[intersection_id], now),
                       "none", FailsafeMode(stale))
        /\ last_check' = FailsafeMode(stale)
        /\ UNCHANGED <<baseline, last_sensor_epoch>>

InitFailsafe ==
    /\ now = 0
    /\ last_sensor_epoch = [i \in TrackIds |-> None]
    /\ last_check = "-"

InitRet ==
    ret = [op |-> "init", arg |-> "-", delta |-> 0, before |-> DEFAULT_GREEN_SECONDS,
           error |-> "none", result |-> "-", prev |-> "-"]

InitLoop ==
    /\ tick_counter = 0
    /\ stop_event = FALSE
    /\ pc = "test"

\* the state after import of the application modules
InitAll ==
    /\ InitSim
    /\ InitStore
    /\ InitDemand
    /\ InitFailsafe
    /\ InitLoop
    /\ InitApi
    /\ InitTimeline
    /\ InitRet

(***************************************************************************)
(* The controller driven through its public methods and the adjust route   *)
(* (app/routes/intersections.py)                                           *)
(***************************************************************************)
\* POST /intersections/{intersectionId}/adjust
adjust_intersection(intersectionId, approach, deltaSeconds) ==
    IF intersectionId # INTERSECTION_ID
    THEN /\ ret' = Call("adjust_intersection", intersectionId, deltaSeconds, "HTTP404", "-")
         /\ UNCHANGED <<ctlVars, decision_log>>
    ELSE IF approach \notin Approaches
    THEN /\ ret' = Call("adjust_intersection", approach, deltaSeconds, "KeyError", "-")
         /\ UNCHANGED <<ctlVars, decision_log>>
    ELSE /\ Len(decision_log) < MaxLog
         /\ current' = AdjustedPlan(current, approach, deltaSeconds)
         /\ decision_log' = AppendDecisionLog(decision_log, "Manual Adjustment")
         /\ ret' = Call("adjust_intersection", approach, deltaSeconds, "none", "adjusted")
         /\ UNCHANGED baseline

ApiAdjust ==
    /\ \E i \in TrackIds, a \in Approaches \cup {UnknownApproach} :
          adjust_intersection(i, a, RULES_MAX_DELTA)
    /\ UNCHANGED <<simVars, fsVars, loopVars>>
    /\ UNCHANGED <<genVars, stepVars, extVars, recVars, last_check>>

CtlApply ==
    /\ \E a \in Approaches \cup {UnknownApproach}, d \in Deltas : apply_adjustment(a, d)
    /\ UNCHANGED <<simVars, fsVars, loopVars, decision_log>>
    /\ UNCHANGED <<genVars, stepVars, extVars, recVars, last_check>>

CtlRevert ==
    /\ revert_baseline
    /\ UNCHANGED <<simVars, fsVars, loopVars, decision_log>>
    /\ UNCHANGED <<genVars, stepVars, extVars, recVars, last_check>>

NextCtl == CtlApply \/ CtlRevert \/ ApiAdjust

SpecCtl == InitAll /\ [][NextCtl]_vars

(***************************************************************************)
(* The simulator driven through its public methods                         *)
(***************************************************************************)
SimStep ==
    /\ tick_counter < MaxTicks
    /\ \E arrivals \in ArrivalVectors :
          /\ step(tick_counter, arrivals)
          /\ ret' = Call("step", "-", LargestRawQueue(queue, current, arrivals),
                         "none", "snapshot")
    /\ tick_counter' = tick_counter + 1
    /\ UNCHANGED <<ctlVars, fsVars, stop_event, pc, decision_log>>
    /\ UNCHANGED <<genVars, stepVars, extVars, recVars, last_check>>

\* IntersectionSim.apply_adjustment
SimApply ==
    /\ apply_adjustment(MAINLINE, RULES_MAX_DELTA)
    /\ UNCHANGED <<simVars, fsVars, loopVars, decision_log>>
    /\ UNCHANGED <<genVars, stepVars, extVars, recVars, last_check>>

\* IntersectionSim.revert_baseline
SimRevert ==
    /\ revert_baseline
    /\ UNCHANGED <<simVars, fsVars, loopVars, decision_log>>
    /\ UNCHANGED <<genVars, stepVars, extVars, recVars, last_check>>

NextSim == SimStep \/ SimApply \/ SimRevert

SpecSim == InitAll /\ [][NextSim]_vars

\* a tick in which the demand generator yields no vehicle on any approach, taken
\* once the first MaxTicks ticks have filled the queues
SimDrain ==
    /\ tick_counter >= MaxTicks
    /\ tick_counter < MaxTicks + MaxDrainTicks
    /\ step(tick_counter, ZeroArrivals)
    /\ ret' = Call("step", "drain", LargestRawQueue(queue, current, ZeroArrivals), "none",
                   IF StepQueue(queue, current, ZeroArrivals) = ZeroArrivals
                   THEN "empty" ELSE "queued")
    /\ tick_counter' = tick_counter + 1
    /\ UNCHANGED <<ctlVars, fsVars, stop_event, pc, decision_log>>
    /\ UNCHANGED <<genVars, stepVars, extVars, recVars, last_check>>

NextDrain == SimStep \/ SimApply \/ SimRevert \/ SimDrain

SpecDrain == InitAll /\ [][NextDrain]_vars

\* the simulation keeps being stepped
SpecDrainFair == SpecDrain /\ WF_vars(SimDrain)

(***************************************************************************)
(* The failsafe monitor driven through its public functions                *)
(***************************************************************************)
FsRecord ==
    /\ \E i \in TrackIds : record_sensor_tick(i)
    /\ UNCHANGED <<ctlVars, simVars, now, system_status, loopVars, decision_log>>
    /\ UNCHANGED <<genVars, stepVars, extVars, recVars, last_check>>

FsCheck ==
    /\ \E i \in TrackIds : check_failsafe(i)
    /\ UNCHANGED <<simVars, now, loopVars, decision_log>>
    /\ UNCHANGED <<genVars, stepVars, extVars, recVars>>

FsElapse ==
    /\ now < MaxTime
    /\ \E dt \in TimeSteps : now' = Advance(now, dt)
    /\ UNCHANGED <<ctlVars, simVars, last_sensor_epoch, system_status, loopVars,
                   decision_log, ret>>
    /\ UNCHANGED <<genVars, stepVars, extVars, recVars, last_check>>

FsAdjust ==
    /\ apply_adjustment(MAINLINE, RULES_MAX_DELTA)
    /\ UNCHANGED <<simVars, fsVars, loopVars, decision_log>>
    /\ UNCHANGED <<genVars, stepVars, extVars, recVars, last_check>>

NextFs == FsRecord \/ FsCheck \/ FsElapse \/ FsAdjust

SpecFs == InitAll /\ [][NextFs]_vars

(***************************************************************************)
(* The tick driver (app/tick_loop.py) and the adjust route                 *)
(***************************************************************************)
\* where an exception leaves _tick: nowhere, or before sim.step, after it,
\* after record_sensor_tick, or after check_all_failsafes
Faults == {"none", "before_step", "after_step", "after_record", "after_check"}

\* seconds that pass inside one tick between the record and the failsafe check
TickDelays == {0, SENSOR_STALE_SECONDS + 1}

\* seconds from the end of one tick to the next loop test
WaitSteps == {0} \cup TimeSteps

\* every approach receives MaxArrivals vehicles in every tick of the driver
LoopArrivals == {[a \in Approaches |-> MaxArrivals]}

\* the heartbeat at the end of _tick
Heartbeat(status) ==
    [status EXCEPT !.systemOperational = TRUE, !.live = TRUE, !.message = "tick"]

\* an except branch that swallows the exception and leaves the status alone
TickErrorSilent(status) == status

\* the except branch of _loop
TickError(status) ==
    [status EXCEPT !.systemOperational = FALSE, !.mode = "LOCAL_FALLBACK",
                   !.message = "error"]

\* _tick(tick_counter) inside the try of _loop
Tick(arrivals, fault, delay) ==
    LET stepped == fault # "before_step"
        recorded == fault \notin {"before_step", "after_step"}
        checked == fault \in {"after_check", "none"}
        completed == fault = "none"
        epoch == IF recorded
                 THEN [last_sensor_epoch EXCEPT ![INTERSECTION_ID] = now]
                 ELSE last_sensor_epoch
        check_time == IF checked THEN Advance(now, delay) ELSE now
        stale == IsStale(epoch[INTERSECTION_ID], check_time)
        after_check == IF checked THEN FailsafeStatus(system_status, stale)
                       ELSE system_status
    IN  /\ IF stepped THEN step(tick_counter, arrivals) ELSE UNCHANGED simVars
        /\ last_sensor_epoch' = epoch
        /\ now' = check_time
        /\ current' = IF checked /\ stale THEN baseline ELSE current
        /\ system_status' = IF fault = "none" THEN Heartbeat(after_check)
                            ELSE TickError(after_check)
        /\ tick_counter' = IF fault = "none" THEN tick_counter + 1 ELSE tick_counter
        /\ ret' = Call("_tick", fault, tick_counter,
                       IF fault = "none" THEN "none" ELSE "Exception",
                       IF checked THEN FailsafeMode(stale) ELSE "-")
        /\ last_check' = IF checked THEN FailsafeMode(stale) ELSE last_check
        /\ live_metrics' =
              IF checked
              THEN update_live(live_metrics, INTERSECTION_ID,
                               LiveMetrics(SumOver(queue', Approaches),
                                           total_arrivals_this_tick'))
              ELSE live_metrics
        /\ intersections' =
              IF checked
              THEN upsert_intersection(intersections,
                                       IntersectionSummary(INTERSECTION_ID, current))
              ELSE intersections
        /\ recommendations_top' =
              IF completed
              THEN generate_top_recommendations(intersections', live_metrics', next_rec)
              ELSE recommendations_top
        /\ next_rec' = IF completed THEN next_rec + IdsUsed(intersections', live_metrics')
                       ELSE next_rec
        /\ UNCHANGED <<baseline, decision_log, stop_event, genVars, stepVars, extVars, obtained>>

\* a loop test that does not look at the stop event: while True
LoopTestIgnoreStop ==
    /\ pc = "test"
    /\ tick_counter < MaxTicks
    /\ pc' = "tick"
    /\ UNCHANGED <<ctlVars, simVars, fsVars, decision_log, tick_counter, stop_event, ret>>
    /\ UNCHANGED <<genVars, stepVars, extVars, recVars, last_check>>

\* while not _stop_event.is_set(); the loop is followed for MaxTicks completed
\* ticks and, past them, only into its exit
LoopTest ==
    /\ pc = "test"
    /\ stop_event \/ tick_counter < MaxTicks
    /\ pc' = IF stop_event THEN "stopped" ELSE "tick"
    /\ UNCHANGED <<ctlVars, simVars, fsVars, decision_log, tick_counter, stop_event, ret>>
    /\ UNCHANGED <<genVars, stepVars, extVars, recVars, last_check>>

LoopTick ==
    /\ pc = "tick"
    /\ tick_counter < MaxTicks
    /\ \E arrivals \in LoopArrivals, fault \in Faults, delay \in TickDelays :
          Tick(arrivals, fault, delay)
    /\ pc' = "wait"

\* _stop_event.wait(sleep_for)
LoopWait ==
    /\ pc = "wait"
    /\ \E dt \in WaitSteps : now' = Advance(now, dt)
    /\ pc' = "test"
    /\ UNCHANGED <<ctlVars, simVars, last_sensor_epoch, system_status, decision_log,
                   tick_counter, stop_event, ret>>
    /\ UNCHANGED <<genVars, stepVars, extVars, recVars, last_check>>

\* stop_tick_loop
LoopStop ==
    /\ ~stop_event
    /\ stop_event' = TRUE
    /\ UNCHANGED <<ctlVars, simVars, fsVars, decision_log, tick_counter, pc, ret>>
    /\ UNCHANGED <<genVars, stepVars, extVars, recVars, last_check>>

NextLoop == LoopTest \/ LoopTick \/ LoopWait \/ LoopStop \/ ApiAdjust

SpecLoop == InitAll /\ [][NextLoop]_vars

\* the tick thread is scheduled: each of its steps is eventually taken
SpecLoopFair ==
    SpecLoop /\ WF_vars(LoopTest) /\ WF_vars(LoopTick) /\ WF_vars(LoopWait)

(***************************************************************************)
(* Two demand generators driven side by side                               *)
(***************************************************************************)
GenConstruct ==
    /\ \E g \in Generators, seed \in Seeds : DemandInit(g, seed)
    /\ UNCHANGED <<ctlVars, simVars, fsVars, loopVars, decision_log, recVars, extVars,
                   stepVars, last_check, ret>>

GenArrivals ==
    /\ \E g \in Generators, tick \in GenTicks :
          /\ Len(gen_out[g]) < MaxCalls
          /\ get_arrivals(g, tick)
    /\ UNCHANGED <<ctlVars, simVars, fsVars, loopVars, decision_log, recVars, extVars,
                   stepVars, last_check, ret>>

NextGen == GenConstruct \/ GenArrivals

SpecGen == InitAll /\ [][NextGen]_vars

(***************************************************************************)
(* The rule engine called on synthetic inputs                              *)
(***************************************************************************)
\* the inputs of one call of evaluate
EvalInputs ==
    [density_percent : EvalDensities, queue_per_approach : EvalQueues,
     current_greens : EvalGreens, departures_per_tick : EvalDepartures]

\* a freshly imported application and the inputs a caller is about to pass
InitEval ==
    /\ InitSim
    /\ InitStore
    /\ InitDemand
    /\ InitFailsafe
    /\ InitLoop
    /\ InitApi
    /\ InitTimeline
    /\ \E input \in EvalInputs :
          ret = [op |-> "input", arg |-> input, delta |-> 0,
                 before |-> DEFAULT_GREEN_SECONDS, error |-> "none", result |-> "-",
                 prev |-> "-"]

RecEvaluate ==
    /\ ret.op = "input"
    /\ next_rec < MaxRecs
    /\ LET rec == evaluate(INTERSECTION_ID, ret.arg.density_percent,
                           ret.arg.queue_per_approach, ret.arg.current_greens,
                           ret.arg.departures_per_tick, next_rec)
       IN  /\ ret' = Call("evaluate", ret.arg, 0, "none", rec)
           /\ next_rec' = IF rec = NoRec THEN next_rec ELSE next_rec + 1
    /\ UNCHANGED <<ctlVars, simVars, fsVars, loopVars, decision_log, genVars, stepVars, extVars,
                   intersections, live_metrics, recommendations_top, obtained,
                   last_check>>

NextEval == RecEvaluate

SpecEval == InitEval /\ [][NextEval]_vars

(***************************************************************************)
(* The recommender run over a store that several intersections publish to  *)
(***************************************************************************)
\* step 12 of _tick for one intersection: update_live, then upsert_intersection;
\* the store is filled before the recommender first runs
RecPublish ==
    /\ next_rec = 0
    /\ \E i \in StoreIdSet, total_queue \in LiveQueues :
          /\ live_metrics' = update_live(live_metrics, i, LiveMetrics(total_queue, 0))
          /\ intersections' = upsert_intersection(
                                  intersections, IntersectionSummary(i, DEFAULT_GREEN_SECONDS))
          /\ ret' = Call("upsert_intersection", i, 0, "none", "-")
    /\ UNCHANGED <<ctlVars, simVars, fsVars, loopVars, decision_log, genVars, stepVars, extVars,
                   recommendations_top, next_rec, obtained, last_check>>

\* generate_top_recommendations(store), then store.update_recommendations
RecGenerate ==
    /\ next_rec + Max(1, Len(intersections)) <= MaxRecs
    /\ recommendations_top' =
          generate_top_recommendations(intersections, live_metrics, next_rec)
    /\ next_rec' = next_rec + IdsUsed(intersections, live_metrics)
    /\ ret' = Call("generate_top_recommendations", "-", 0, "none", "list")
    /\ UNCHANGED <<ctlVars, simVars, fsVars, loopVars, decision_log, genVars, stepVars, extVars,
                   intersections, live_metrics, obtained, last_check>>

NextRec == RecPublish \/ RecGenerate

SpecRec == InitAll /\ [][NextRec]_vars

(***************************************************************************)
(* The operator's routes (app/routes/recommendations.py) beside the tick    *)
(***************************************************************************)
\* GET /recommendations/top
get_recommendations_top ==
    /\ obtained' = obtained \cup {recommendations_top[k].recommendationId :
                                     k \in 1..Len(recommendations_top)}
    /\ ret' = Call("get_recommendations_top", "-", 0, "none", "list")

\* POST /recommendations/{recommendationId}/apply
apply_recommendation(recommendationId) ==
    LET k == FindRecommendation(recommendations_top, recommendationId)
    IN  IF k = 0
        THEN /\ ret' = Call("apply_recommendation", recommendationId, 0, "HTTP404", "-")
             /\ UNCHANGED <<ctlVars, decision_log, recommendations_top>>
        ELSE LET rec == recommendations_top[k]
             IN  /\ Len(decision_log) < MaxDecisions
                 /\ recommendations_top' =
                       SetStatus(recommendations_top, recommendationId, "APPLIED")
                 /\ current' = IF rec.targetIntersectionId = INTERSECTION_ID
                               THEN AdjustedPlan(current, rec.targetApproach,
                                                 rec.deltaSeconds)
                               ELSE current
                 /\ decision_log' =
                       AppendDecisionLog(decision_log, "Recommendation Applied")
                 /\ ret' = Call("apply_recommendation", recommendationId,
                                rec.deltaSeconds, "none", "APPLIED")
                 /\ UNCHANGED baseline

\* POST /recommendations/{recommendationId}/reject
reject_recommendation(recommendationId) ==
    LET k == FindRecommendation(recommendations_top, recommendationId)
    IN  IF k = 0
        THEN /\ ret' = Call("reject_recommendation", recommendationId, 0, "HTTP404", "-")
             /\ UNCHANGED <<decision_log, recommendations_top>>
        ELSE /\ Len(decision_log) < MaxDecisions
             /\ recommendations_top' =
                   SetStatus(recommendations_top, recommendationId, "REJECTED")
             /\ decision_log' = AppendDecisionLog(decision_log, "Recommendation Rejected")
             /\ ret' = Call("reject_recommendation", recommendationId, 0, "none",
                            "REJECTED")

\* the arrivals of a tick: an empty road or MaxArrivals on every approach
OpsArrivals == {ZeroArrivals} \cup LoopArrivals

\* one pass of the loop body that raises nothing
OpsTick ==
    /\ tick_counter < MaxTicks
    /\ \E arrivals \in OpsArrivals, delay \in TickDelays : Tick(arrivals, "none", delay)
    /\ UNCHANGED pc

\* the operator changes the plan through the controller before the first tick
OpsAdjust ==
    /\ tick_counter = 0
    /\ \E a \in OpsApproaches, d \in OpsDeltas : apply_adjustment(a, d)
    /\ UNCHANGED <<simVars, fsVars, loopVars, decision_log, genVars, stepVars, extVars, recVars, last_check>>

OpsGet ==
    /\ get_recommendations_top
    /\ UNCHANGED <<ctlVars, simVars, fsVars, loopVars, decision_log, genVars, stepVars, extVars,
                   intersections, live_metrics, recommendations_top, next_rec, last_check>>

OpsApply ==
    /\ \E id \in obtained \cup {None} : apply_recommendation(id)
    /\ UNCHANGED <<simVars, fsVars, loopVars, genVars, stepVars, extVars, intersections, live_metrics,
                   next_rec, obtained, last_check>>

OpsReject ==
    /\ \E id \in obtained \cup {None} : reject_recommendation(id)
    /\ UNCHANGED <<ctlVars, simVars, fsVars, loopVars, genVars, stepVars, extVars, intersections,
                   live_metrics, next_rec, obtained, last_check>>

NextOps == OpsTick \/ OpsAdjust \/ OpsGet \/ OpsApply \/ OpsReject

SpecOps == InitAll /\ [][NextOps]_vars

(***************************************************************************)
(* An API thread inside SignalController.apply_adjustment, statement by     *)
(* statement, beside the tick thread that uses the same controller          *)
(***************************************************************************)
\* lines 52-86: the call reads _current and computes the new greens
RaceCall ==
    /\ api_pc = "idle"
    /\ api_local.calls < MaxAdjust
    /\ \E approach \in Approaches, delta_seconds \in Deltas :
          LET others == Approaches \ {approach}
              current_others_total == SumOver(current, others)
              delta == ClampDelta(current, approach, delta_seconds, current_others_total)
              new_others == [a \in Approaches |->
                                IF a = approach THEN current[a]
                                ELSE ClampedOther(current, a, delta, current_others_total)]
              actual_taken == SumOver([a \in others |-> current[a] - new_others[a]],
                                      others)
              local == [approach |-> approach, delta |-> delta_seconds, start |-> current,
                        new_target |-> ClampGreen(current[approach] + actual_taken),
                        new_others |-> new_others, written |-> 0,
                        calls |-> api_local.calls + 1]
          IN  /\ api_local' = local
              /\ IF delta = 0
                 THEN /\ api_pc' = "idle"
                      /\ ret' = Call("apply_adjustment", approach, delta_seconds, "none",
                                     "plan")
                 ELSE /\ api_pc' = "write_target"
                      /\ UNCHANGED ret
    /\ UNCHANGED <<ctlVars, simVars, fsVars, loopVars, decision_log, genVars, stepVars, tlVars, recVars,
                   snapVars, last_check>>

\* line 88: self._current[approach] = new_target_adjusted
RaceWriteTarget ==
    /\ api_pc = "write_target"
    /\ current' = [current EXCEPT ![api_local.approach] = api_local.new_target]
    /\ api_pc' = "write_others"
    /\ UNCHANGED <<baseline, simVars, fsVars, loopVars, decision_log, genVars, stepVars, tlVars, recVars,
                   api_local, snapVars, last_check, ret>>

\* lines 89-90: one pass of the loop self._current[a] = new_others[a]
RaceWriteOther ==
    /\ api_pc = "write_others"
    /\ LET others == Others(api_local.approach)
           a == others[api_local.written + 1]
       IN  /\ current' = [current EXCEPT ![a] = api_local.new_others[a]]
           /\ api_local' = [api_local EXCEPT !.written = @ + 1]
           /\ api_pc' = IF api_local.written + 1 = Len(others) THEN "enforce"
                        ELSE "write_others"
    /\ UNCHANGED <<baseline, simVars, fsVars, loopVars, decision_log, genVars, stepVars, tlVars, recVars,
                   snapVars, last_check, ret>>

\* lines 93-95: _enforce_cycle(approach) and the return
RaceEnforce ==
    /\ api_pc = "enforce"
    /\ current' = EnforceCycle(current, api_local.approach)
    /\ api_pc' = "idle"
    /\ ret' = Call("apply_adjustment", api_local.approach, api_local.delta, "none", "plan")
    /\ UNCHANGED <<baseline, simVars, fsVars, loopVars, decision_log, genVars, stepVars, tlVars, recVars,
                   api_local, snapVars, last_check>>

\* the tick thread: check_failsafe finds the sensor stale and reverts
RaceRevert ==
    /\ revert_baseline
    /\ UNCHANGED <<simVars, fsVars, loopVars, decision_log, genVars, stepVars, recVars, extVars,
                   last_check>>

\* the tick thread: sim.step reads the greens of the plan
RaceStep ==
    /\ tick_counter < MaxTicks
    /\ \E arrivals \in LoopArrivals :
          /\ step(tick_counter, arrivals)
          /\ ret' = Call("step", "-", LargestRawQueue(queue, current, arrivals),
                         "none", "snapshot")
    /\ tick_counter' = tick_counter + 1
    /\ UNCHANGED <<ctlVars, fsVars, stop_event, pc, decision_log, genVars, stepVars, recVars,
                   extVars, last_check>>

NextRace ==
    RaceCall \/ RaceWriteTarget \/ RaceWriteOther \/ RaceEnforce \/ RaceRevert \/ RaceStep

SpecRace == InitAll /\ [][NextRace]_vars

(***************************************************************************)
(* The store writes of one tick, call by call, beside a reader              *)
(***************************************************************************)
\* steps 2 to 12 of _tick up to store.update_live
SnapTickLive ==
    /\ snap_pc = "idle"
    /\ tick_counter < MaxTicks
    /\ \E arrivals \in LoopArrivals : step(tick_counter, arrivals)
    /\ tick_summary' = IntersectionSummary(INTERSECTION_ID, current)
    /\ record_sensor_tick(INTERSECTION_ID)
    /\ live_metrics' = update_live(live_metrics, INTERSECTION_ID,
                                   LiveMetrics(SumOver(queue', Approaches),
                                           total_arrivals_this_tick'))
    /\ snap_pc' = "update_live"
    /\ UNCHANGED <<ctlVars, now, system_status, loopVars, decision_log, genVars, stepVars, tlVars,
                   intersections, recommendations_top, next_rec, obtained, apiVars,
                   reader, boundaries, last_check>>

\* store.upsert_intersection(intersection_summary)
SnapTickUpsert ==
    /\ snap_pc = "update_live"
    /\ intersections' = upsert_intersection(intersections, tick_summary)
    /\ snap_pc' = "upsert_intersection"
    /\ ret' = Call("upsert_intersection", INTERSECTION_ID, 0, "none", "-")
    /\ UNCHANGED <<ctlVars, simVars, fsVars, loopVars, decision_log, genVars, stepVars, tlVars,
                   live_metrics, recommendations_top, next_rec, obtained, apiVars,
                   tick_summary, reader, boundaries, last_check>>

\* the rest of _tick: the failsafe check, the recommendations, the heartbeat
SnapTickEnd ==
    /\ snap_pc = "upsert_intersection"
    /\ LET stale == IsStale(last_sensor_epoch[INTERSECTION_ID], now)
       IN  /\ current' = IF stale THEN baseline ELSE current
           /\ system_status' = Heartbeat(FailsafeStatus(system_status, stale))
           /\ last_check' = FailsafeMode(stale)
           /\ ret' = Call("_tick", "none", 0, "none", FailsafeMode(stale))
    /\ recommendations_top' =
          generate_top_recommendations(intersections, live_metrics, next_rec)
    /\ next_rec' = next_rec + IdsUsed(intersections, live_metrics)
    /\ tick_counter' = tick_counter + 1
    /\ snap_pc' = "idle"
    /\ boundaries' = boundaries \cup {get_snapshot}
    /\ UNCHANGED <<baseline, simVars, now, last_sensor_epoch, stop_event, pc,
                   decision_log, genVars, stepVars, tlVars, intersections, live_metrics, obtained, apiVars,
                   tick_summary, reader>>

\* a reader thread calls get_snapshot
SnapRead ==
    /\ reader' = get_snapshot
    /\ ret' = Call("get_snapshot", "-", 0, "none", "snapshot")
    /\ UNCHANGED <<ctlVars, simVars, fsVars, loopVars, decision_log, genVars, stepVars, tlVars, recVars,
                   apiVars, snap_pc, tick_summary, boundaries, last_check>>

\* the plan is adjusted between two ticks
SnapAdjust ==
    /\ snap_pc = "idle"
    /\ apply_adjustment(MAINLINE, RULES_MAX_DELTA)
    /\ UNCHANGED <<simVars, fsVars, loopVars, decision_log, genVars, stepVars, recVars, extVars,
                   last_check>>

NextSnap == SnapTickLive \/ SnapTickUpsert \/ SnapTickEnd \/ SnapRead \/ SnapAdjust

SpecSnap == InitAll /\ [][NextSnap]_vars

(***************************************************************************)
(* A TimelineBuffer driven through its public methods                       *)
(***************************************************************************)
\* the n a caller passes to last
LastCounts == 0..(MaxCapacity + 1)

TlConstruct ==
    /\ \E maxlen \in 0..MaxCapacity :
          /\ TimelineInit(maxlen)
          /\ ret' = Call("TimelineBuffer", maxlen, 0, "none", "-")
    /\ UNCHANGED <<ctlVars, simVars, fsVars, loopVars, decision_log, genVars, stepVars, recVars,
                   apiVars, snapVars, last_check>>

\* TimelineBuffer.append; the point is named by its number since construction
TlAppend ==
    /\ tl_next < MaxPoints
    /\ tl_buf' = deque_append(tl_buf, tl_maxlen, tl_next)
    /\ tl_next' = tl_next + 1
    /\ ret' = Call("append", tl_next, 0, "none", "-")
    /\ UNCHANGED <<ctlVars, simVars, fsVars, loopVars, decision_log, genVars, stepVars, recVars,
                   apiVars, snapVars, tl_maxlen, last_check>>

TlLast ==
    /\ \E n \in LastCounts : ret' = Call("last", n, 0, "none", last(tl_buf, n))
    /\ UNCHANGED <<ctlVars, simVars, fsVars, loopVars, decision_log, genVars, stepVars, recVars,
                   extVars, last_check>>

\* TimelineBuffer.all
TlAll ==
    /\ ret' = Call("all", 0, 0, "none", tl_buf)
    /\ UNCHANGED <<ctlVars, simVars, fsVars, loopVars, decision_log, genVars, stepVars, recVars,
                   extVars, last_check>>

NextTl == TlConstruct \/ TlAppend \/ TlLast \/ TlAll

SpecTl == InitAll /\ [][NextTl]_vars

(***************************************************************************)
(* The simulator with its weather, observed through the snapshots of step  *)
(***************************************************************************)
\* arrivals of one tick, for the north-south and the east-west pair: an empty
\* road, the peak means, MaxArrivals everywhere, and a side-street surge
StepArrivals ==
    {[a \in Approaches |-> IF a \in {"N", "S"} THEN pair[1] ELSE pair[2]] :
        pair \in {<<0, 0>>,
                  <<BASE_PEAK_ARRIVALS["N"], BASE_PEAK_ARRIVALS["E"]>>,
                  <<MaxArrivals, MaxArrivals>>,
                  <<BASE_PEAK_ARRIVALS["N"], MaxArrivals>>}}

\* snapshot = rt.sim.step(tick)
MetStep ==
    /\ Len(snapshots) < MaxSteps
    /\ \E arrivals \in StepArrivals :
          /\ step(Len(snapshots), arrivals)
          /\ step_local' = StepLocals(queue, current, arrivals)
          /\ snapshots' = Append(snapshots,
                                 build_snapshot(queue', total_arrivals_this_tick', weather))
          /\ ret' = Call("step", "-", LargestRawQueue(queue, current, arrivals),
                         "none", "snapshot")
    /\ UNCHANGED <<ctlVars, fsVars, loopVars, decision_log, weather>>
    /\ UNCHANGED <<genVars, extVars, recVars, last_check>>

\* rt.sim.set_weather(weather.tempC, weather.condition)
MetSetWeather ==
    /\ \E w \in Weathers : set_weather(w.tempC, w.condition)
    /\ UNCHANGED <<ctlVars, simVars, fsVars, loopVars, decision_log, snapshots, step_local>>
    /\ UNCHANGED <<genVars, extVars, recVars, last_check, ret>>

\* IntersectionSim.apply_adjustment
MetApply ==
    /\ current = baseline
    /\ apply_adjustment(MAINLINE, RULES_MAX_DELTA)
    /\ UNCHANGED <<simVars, fsVars, loopVars, decision_log>>
    /\ UNCHANGED <<genVars, stepVars, extVars, recVars, last_check>>

\* IntersectionSim.revert_baseline
MetRevert ==
    /\ revert_baseline
    /\ UNCHANGED <<simVars, fsVars, loopVars, decision_log>>
    /\ UNCHANGED <<genVars, stepVars, extVars, recVars, last_check>>

NextMet == MetStep \/ MetSetWeather \/ MetApply \/ MetRevert

SpecMet == InitAll /\ [][NextMet]_vars

(***************************************************************************)
(* Properties                                                              *)
(***************************************************************************)
IsControllerCall == ret.op \in {"apply_adjustment", "revert_baseline", "adjust_intersection"}

IsAdjustment == ret.op \in {"apply_adjustment", "adjust_intersection"}

\* C1: after every apply_adjustment and revert_baseline call the four greens plus
\* one yellow phase per approach add up to the cycle length.
C1_CycleConservation ==
    IsControllerCall =>
        SumGreens(current) + Len(APPROACHES) * YELLOW_SECONDS = CYCLE_SECONDS

\* C2: every approach's green of every reachable plan lies in [minGreen, maxGreen].
C2_ClampInvariant ==
    \A a \in Approaches :
        MIN_GREEN_SECONDS <= current[a] /\ current[a] <= MAX_GREEN_SECONDS

\* an adjustment whose final nudge was stopped by the lower clamp
C2_Witness ==
    /\ ret.op = "apply_adjustment"
    /\ ret.error = "none"
    /\ current # ret.before
    /\ current[ret.arg] = MIN_GREEN_SECONDS
    /\ ret.before[ret.arg] > MIN_GREEN_SECONDS

\* C3: an adjustment by d changes the target approach's green by an amount of the
\* sign of d (or zero) and of absolute value at most |d|; from the baseline a
\* request of +20 on S leaves S between 45 and 65 and at most maxGreen.
C3_SameSignBounded ==
    (IsAdjustment /\ ret.error = "none") =>
        LET change == current[ret.arg] - ret.before[ret.arg]
        IN  /\ change * ret.delta >= 0
            /\ Abs(change) <= Abs(ret.delta)
            /\ current[ret.arg] <= MAX_GREEN_SECONDS

\* C7: revert_baseline sets the current plan to the baseline the controller was
\* constructed with, no operation ever changes that baseline, and a second
\* revert_baseline right after a first leaves the plan as the first left it.
C7_RevertBaseline ==
    /\ baseline = DEFAULT_GREEN_SECONDS
    /\ ret.op = "revert_baseline" => current = baseline
    /\ (ret.op = "revert_baseline" /\ ret.prev = "plan") => current = ret.before

\* a revert that undid earlier adjustments
C7_Witness ==
    /\ ret.op = "revert_baseline"
    /\ ret.before # DEFAULT_GREEN_SECONDS
    /\ current = DEFAULT_GREEN_SECONDS

\* C8: an adjustment for an approach that is not one of the four reports an error
\* to its caller and leaves the current and the baseline plan as they were.
C8_UnknownApproachRejected ==
    (IsAdjustment /\ ret.arg \notin Approaches) =>
        /\ ret.error # "none"
        /\ current = ret.before
        /\ baseline = DEFAULT_GREEN_SECONDS

\* an unknown approach rejected on a controller that holds an adjusted plan
C8_Witness ==
    /\ ret.op = "apply_adjustment"
    /\ ret.arg = UnknownApproach
    /\ ret.error = "ValueError"
    /\ current # baseline

\* no nonzero delta of the sign of d and of magnitude at most |d| keeps the target
\* and the three other approaches within the clamps
NoFeasibleDelta(cur, approach, d) ==
    \A k \in 1..Abs(d) :
        ~Feasible(cur, approach, IF d > 0 THEN k ELSE -k,
                  SumOver(cur, Approaches \ {approach}))

\* C9: apply_adjustment on a known approach never raises, and when the requested
\* delta is 0 or no nonzero delta of its sign is feasible every green is unchanged.
C9_InfeasibleIsNoOp ==
    (ret.op = "apply_adjustment" /\ ret.arg \in Approaches) =>
        /\ ret.error = "none"
        /\ ret.result = "plan"
        /\ NoFeasibleDelta(ret.before, ret.arg, ret.delta) => current = ret.before

\* a nonzero request that no feasible delta can serve
C9_Witness ==
    /\ ret.op = "apply_adjustment"
    /\ ret.arg \in Approaches
    /\ ret.delta # 0
    /\ NoFeasibleDelta(ret.before, ret.arg, ret.delta)
    /\ current = ret.before

\* C10: every approach's queue is an integer in [0, hardCap] after any sequence
\* of step, apply_adjustment and revert_baseline calls.
C10_QueueBounded ==
    \A a \in Approaches : queue[a] \in 0..QUEUE_HARD_CAP_PER_APPROACH

\* a step whose arrivals would have taken a queue beyond the hard cap
C10_Witness ==
    /\ ret.op = "step"
    /\ ret.error = "none"
    /\ ret.delta > QUEUE_HARD_CAP_PER_APPROACH
    /\ \E a \in Approaches : queue[a] = QUEUE_HARD_CAP_PER_APPROACH

\* C5: check_failsafe returns LOCAL_FALLBACK and leaves the plan at the baseline
\* when no tick was ever recorded for the id or more than SENSOR_STALE_SECONDS
\* have passed since the last one; otherwise it returns AI_ACTIVE and leaves the
\* plan as it was.
C5_CheckFailsafe ==
    ret.op = "check_failsafe" =>
        /\ ret.error = "none"
        /\ IF ret.delta = None \/ ret.delta > SENSOR_STALE_SECONDS
           THEN ret.result = "LOCAL_FALLBACK" /\ current = baseline
           ELSE ret.result = "AI_ACTIVE" /\ current = ret.before

\* the first check of a never-recorded intersection reverting an adjusted plan
C5_Witness ==
    /\ ret.op = "check_failsafe"
    /\ ret.arg = UnknownId
    /\ ret.delta = None
    /\ ret.result = "LOCAL_FALLBACK"
    /\ ret.before # baseline
    /\ current = baseline

\* C6: a check_failsafe that directly follows a check_failsafe of the same id which
\* returned LOCAL_FALLBACK returns LOCAL_FALLBACK too and leaves the plan
\* unchanged and equal to the baseline.
C6_FailsafeIdempotent ==
    (ret.op = "check_failsafe" /\ ret.prev = "LOCAL_FALLBACK") =>
        /\ ret.result = "LOCAL_FALLBACK"
        /\ current = ret.before
        /\ current = baseline

\* the second of two successive stale checks
C6_Witness ==
    /\ ret.op = "check_failsafe"
    /\ ret.prev = "LOCAL_FALLBACK"
    /\ ret.result = "LOCAL_FALLBACK"
    /\ system_status.mode = "LOCAL_FALLBACK"

\* the configured intersection has no tick on record that is fresh
SensorStale == IsStale(last_sensor_epoch[INTERSECTION_ID], now)

\* the controller holds its baseline plan and the system is in fallback mode
FellBack == current = baseline /\ system_status.mode = "LOCAL_FALLBACK"

\* C4: whenever the intersection's last recorded tick is stale while the tick
\* driver keeps running, then, unless a fresh tick is recorded or the driver is
\* stopped, the controller is eventually back on its baseline plan with the
\* system mode LOCAL_FALLBACK.
C4_StaleLeadsToFallback ==
    (SensorStale /\ ~stop_event /\ tick_counter < MaxTicks)
        ~> (FellBack \/ ~SensorStale \/ stop_event \/ tick_counter = MaxTicks)

\* the generators were constructed with the same seed and were asked for the
\* same ticks in their first i calls
SameRun(g, h, i) ==
    /\ gen_rng[OwnRng(g)].seed = gen_rng[OwnRng(h)].seed
    /\ \A j \in 1..i : gen_out[g][j].tick = gen_out[h][j].tick

\* C12: two generators constructed with the same seed and asked for the same
\* sequence of ticks return the same arrivals at every call, and every count
\* returned is a non-negative integer.
C12_Reproducible ==
    /\ \A g \in Generators, h \in Generators :
          \A i \in 1..Min(Len(gen_out[g]), Len(gen_out[h])) :
              SameRun(g, h, i) => gen_out[g][i].arrivals = gen_out[h][i].arrivals
    /\ \A g \in Generators : \A i \in 1..Len(gen_out[g]) :
          \A a \in Approaches : gen_out[g][i].arrivals[a] \in Nat

\* both generators re-seeded alike and asked twice for the same tick: the second
\* answer differs from the first, and the two generators agree on both
C12_Witness ==
    /\ gen_rng["g1"].seed # DEFAULT_SEED
    /\ Len(gen_out["g1"]) = MaxCalls
    /\ Len(gen_out["g2"]) = MaxCalls
    /\ SameRun("g1", "g2", MaxCalls)
    /\ gen_out["g1"][1].tick = gen_out["g1"][2].tick
    /\ gen_out["g1"][1].arrivals # gen_out["g1"][2].arrivals
    /\ gen_out["g1"] = gen_out["g2"]

QueuesEmpty == \A a \in Approaches : queue[a] = 0

\* C11: once no vehicle arrives any more, whatever the queues and the signal plan
\* reached so far, every approach's queue eventually is zero and stays zero.
C11_QueueDrains == (tick_counter >= MaxTicks) ~> []QueuesEmpty

\* a drain of more than one tick: the step that empties the last queue
C11_Witness ==
    /\ ret.op = "step"
    /\ ret.arg = "drain"
    /\ ret.result = "empty"
    /\ ret.prev = "queued"
    /\ tick_counter > MaxTicks + 1
    /\ QueuesEmpty

Returned == ret.op = "evaluate" /\ ret.result # NoRec

\* C13: whenever evaluate returns a Recommendation, for any density, queue map and
\* current greens (density 100 with an empty queue included), its recommended
\* green minus its current green is its deltaSeconds, and its recommended green
\* lies within [minGreen, maxGreen].
C13_ClampFidelity ==
    Returned =>
        /\ ret.result.recommendedGreenSeconds - ret.result.currentGreenSeconds
              = ret.result.deltaSeconds
        /\ MIN_GREEN_SECONDS <= ret.result.recommendedGreenSeconds
        /\ ret.result.recommendedGreenSeconds <= MAX_GREEN_SECONDS

\* density 100 with no vehicle queued, on a plan already at maxGreen: the
\* requested second is clamped away
C13_Witness ==
    /\ Returned
    /\ ret.arg.density_percent = 1000
    /\ ret.arg.queue_per_approach = ZeroArrivals
    /\ ret.result.currentGreenSeconds = MAX_GREEN_SECONDS
    /\ ret.result.recommendedGreenSeconds = MAX_GREEN_SECONDS
    /\ ret.result.deltaSeconds = 0

\* the queue of an approach in a queue map, 0 when the map lacks it
QueueOf(q, a) == DictGet(q, a, 0)

\* C15: the target approach of a returned Recommendation holds the largest queue,
\* and is the mainline S whenever S holds the largest queue too; for density 85
\* and the queue {N:10, E:5, S:40, W:5} the target is S.
C15_TargetLargestQueue ==
    Returned =>
        LET q == ret.arg.queue_per_approach
            target == ret.result.targetApproach
        IN  /\ \A a \in DOMAIN q : q[a] <= QueueOf(q, target)
            /\ (\A a \in DOMAIN q : q[a] <= QueueOf(q, "S")) => target = "S"
            /\ (ret.arg.density_percent = 850
                  /\ q = [a \in Approaches |->
                             IF a = "S" THEN 40 ELSE IF a = "N" THEN 10 ELSE 5])
               => target = "S"

\* N and S tie for the largest queue and the mainline wins
C15_Witness ==
    /\ Returned
    /\ DOMAIN ret.arg.queue_per_approach = Approaches
    /\ ret.arg.queue_per_approach["N"] = 40
    /\ ret.arg.queue_per_approach["S"] = 40
    /\ ret.result.targetApproach = "S"

\* C16: evaluate returns none exactly when the density is below the alert
\* threshold; at or above it the Recommendation returned is PENDING.
C16_ThresholdGate ==
    ret.op = "evaluate" =>
        /\ ret.result = NoRec
              <=> ret.arg.density_percent < CONGESTION_ALERT_CAPACITY_PERCENT * 10
        /\ ret.result # NoRec => ret.result.status = "PENDING"

\* a Recommendation returned at exactly the threshold
C16_Witness ==
    /\ Returned
    /\ ret.arg.density_percent = CONGESTION_ALERT_CAPACITY_PERCENT * 10
    /\ ret.result.status = "PENDING"

\* the known intersections whose density is at or above the alert threshold
Crossing ==
    {k \in 1..Len(intersections) :
        LET m == live_metrics[intersections[k].intersectionId]
        IN  m # NoLive /\ m.densityPercent >= CONGESTION_ALERT_CAPACITY_PERCENT * 10}

\* the (density, queue) sort key of the intersection a recommendation targets
KeyOf(iid) ==
    [density |-> live_metrics[iid].densityPercent,
     queue |-> live_metrics[iid].queueLengthVehicles]

Generated == ret.op = "generate_top_recommendations"

\* C17: the recommender returns at most TOP_N recommendations; when intersections
\* cross the threshold these are the first of them in the order density
\* descending, then total queue descending, and the list is in that order.
C17_RankTop ==
    Generated =>
        LET top == recommendations_top
            listed == {top[k].targetIntersectionId : k \in 1..Len(top)}
        IN  /\ Len(top) <= TOP_N
            /\ Crossing # {} =>
                  /\ Len(top) = Min(TOP_N, Cardinality(Crossing))
                  /\ Cardinality(listed) = Len(top)
                  /\ \A k \in 1..Len(top) :
                        \E c \in Crossing :
                            intersections[c].intersectionId = top[k].targetIntersectionId
                  /\ \A k \in 1..(Len(top) - 1) :
                        ~KeyLess(KeyOf(top[k].targetIntersectionId),
                                 KeyOf(top[k + 1].targetIntersectionId))
                  /\ \A c \in Crossing :
                        intersections[c].intersectionId \notin listed =>
                            \A k \in 1..Len(top) :
                                ~KeyLess(KeyOf(top[k].targetIntersectionId),
                                         KeyOf(intersections[c].intersectionId))

\* four intersections cross the threshold, the one left out is the least dense,
\* and two of the three listed tie on density and are ordered by their queues
C17_Witness ==
    /\ Generated
    /\ Cardinality(Crossing) = Len(StoreIds)
    /\ Len(recommendations_top) = TOP_N
    /\ KeyOf(recommendations_top[1].targetIntersectionId).density
          = KeyOf(recommendations_top[2].targetIntersectionId).density
    /\ KeyOf(recommendations_top[1].targetIntersectionId).queue
          > KeyOf(recommendations_top[2].targetIntersectionId).queue
    /\ recommendations_top[1].targetIntersectionId # intersections[1].intersectionId
    /\ \E c \in Crossing :
          KeyLess(KeyOf(intersections[c].intersectionId),
                  KeyOf(recommendations_top[TOP_N].targetIntersectionId))

\* C18: whenever the store knows an intersection and none crosses the alert
\* threshold, the recommender returns exactly one recommendation, an advisory,
\* and it targets an intersection of the highest density.
C18_AdvisoryForLeastIdle ==
    (Generated /\ intersections # <<>> /\ Crossing = {}) =>
        /\ Len(recommendations_top) = 1
        /\ recommendations_top[1].alertTitle = "Advisory"
        /\ \A k \in 1..Len(intersections) :
              live_metrics[intersections[k].intersectionId].densityPercent
                 <= live_metrics[recommendations_top[1].targetIntersectionId].densityPercent

\* C20: once a failsafe check has run, the mode the system reports is the mode
\* that the most recent check derived from the time since the last record; no
\* other operation leaves a stored mode that disagrees with it.
C20_ModeIsFunctionOfElapsed ==
    last_check # "-" => system_status.mode = last_check

\* C14: every recommendation in the store after a tick, the advisory one
\* included, recommends a green within [MIN_GREEN_SECONDS, MAX_GREEN_SECONDS]
\* that differs from the current green by exactly deltaSeconds.
C14_VisibleIsAchievable ==
    \A k \in 1..Len(recommendations_top) :
        LET rec == recommendations_top[k]
        IN  /\ rec.recommendedGreenSeconds >= MIN_GREEN_SECONDS
            /\ rec.recommendedGreenSeconds <= MAX_GREEN_SECONDS
            /\ rec.recommendedGreenSeconds - rec.currentGreenSeconds = rec.deltaSeconds

\* the status a caller sees for a recommendation id
StatusOf(recs, recommendation_id) ==
    LET k == FindRecommendation(recs, recommendation_id)
    IN  IF k = 0 THEN "DROPPED" ELSE recs[k].status

\* C19: a recommendation a caller has obtained keeps its status in every step,
\* and stays in the store, unless the step is applyRecommendation or
\* rejectRecommendation of its own id, which makes it APPLIED or REJECTED.
C19_StatusOnlyByOperator ==
    [][\A id \in obtained :
          \/ StatusOf(recommendations_top', id) = StatusOf(recommendations_top, id)
          \/ /\ ret'.op = "apply_recommendation"
             /\ ret'.arg = id
             /\ StatusOf(recommendations_top', id) = "APPLIED"
          \/ /\ ret'.op = "reject_recommendation"
             /\ ret'.arg = id
             /\ StatusOf(recommendations_top', id) = "REJECTED"]_vars

\* a pass of the loop body has just ended, normally or by an exception
Ticked == ret.op = "_tick"

\* C21: every tick of the driver loop runs the failsafe check of the known
\* intersection, whether or not the simulation step or the later processing
\* of that tick succeeded.
C21_CheckEveryTick ==
    Ticked => ret.result \in {"AI_ACTIVE", "LOCAL_FALLBACK"}

\* the last pass of the loop body ended in an exception
Failed == Ticked /\ ret.error = "Exception"

Degraded ==
    /\ ~system_status.systemOperational
    /\ system_status.mode = "LOCAL_FALLBACK"
    /\ system_status.message = "error"

\* C22: a tick that raises leaves the degraded status (not operational, mode
\* LOCAL_FALLBACK, a diagnostic message) and does not end the loop: the loop is
\* left only after the stop signal, and without one the body is entered again.
C22_ExceptionDoesNotStopLoop ==
    /\ [](Failed => (Degraded /\ (pc = "stopped" => stop_event)))
    /\ ((Failed /\ ~stop_event) ~> (pc = "tick" \/ stop_event))

\* after a failed tick, with no stop signal, the loop is about to tick again
C22_Witness ==
    /\ Failed
    /\ ~stop_event
    /\ pc = "tick"
    /\ Degraded

\* the plans a call of apply_adjustment may leave when it runs entirely before
\* or entirely after the reverts of the tick thread
SerialOutcomes ==
    {AdjustedPlan(api_local.start, api_local.approach, api_local.delta),
     AdjustedPlan(baseline, api_local.approach, api_local.delta),
     baseline}

\* C23: an apply_adjustment issued by an API thread never interleaves with the
\* tick thread's use of the controller: the plan the call leaves is the plan
\* of one of the serial orders of the call and the reverts, and a step of the
\* simulation that falls inside the call reads the plan from before the call
\* or one of those plans, never a plan the call has half written.
C23_SingleWriter ==
    [][/\ (api_pc # "idle" /\ api_pc' = "idle") => current' \in SerialOutcomes
       /\ (api_pc # "idle" /\ tick_counter' # tick_counter) =>
             current \in SerialOutcomes \cup {api_local.start}]_vars

\* C24: what a reader obtains while the tick thread runs is, for the metrics
\* and the plan of the intersection, what the store held before the tick or
\* what it holds after it: once the tick has ended, the reader's snapshot is
\* one of the states the store had at a tick boundary.
C24_SnapshotIsPreOrPostTick ==
    snap_pc = "idle" => reader \in boundaries

\* C25: once the stop signal is set no pass of the loop is begun, a pass whose
\* loop test came before the signal runs its tick to the end, and the loop
\* terminates and stays terminated.
C25_CleanStop ==
    /\ [][/\ stop_event => ~(pc = "test" /\ pc' = "tick")
          /\ (pc = "tick" /\ pc' # pc) => (pc' = "wait" /\ ret'.op = "_tick")
          /\ pc = "stopped" => pc' = "stopped"]_vars
    /\ (stop_event ~> (pc = "stopped"))

\* the loop has ended on the stop signal, after a tick and before MaxTicks
C25_Witness ==
    /\ stop_event
    /\ pc = "stopped"
    /\ Ticked
    /\ tick_counter < MaxTicks

\* the points a buffer of the given capacity holds after count appends: the
\* last capacity of them, oldest first
Newest(count, capacity) ==
    [i \in 1..Min(count, capacity) |-> count - Min(count, capacity) + i - 1]

\* C26: after any appends a TimelineBuffer holds at most maxlen points, in
\* insertion order, and they are the most recently appended ones: an append
\* to a full buffer evicts the oldest point and nothing else removes a point;
\* all() returns them.
C26_EvictOldestOnly ==
    /\ Len(tl_buf) <= tl_maxlen
    /\ tl_buf = Newest(tl_next, tl_maxlen)
    /\ ret.op = "all" => ret.result = tl_buf

\* a buffer of capacity two or more is full and has evicted points
C26_Witness ==
    /\ tl_maxlen >= 2
    /\ tl_next > tl_maxlen + 1
    /\ Len(tl_buf) = tl_maxlen
    /\ ret.op = "all"

\* C27: last(n) returns the n most recent points, oldest first, for every
\* n >= 0, and every point when the buffer holds fewer than n.
C27_LastN ==
    ret.op = "last" =>
        ret.result = SubSeq(tl_buf, Len(tl_buf) - Min(ret.arg, Len(tl_buf)) + 1, Len(tl_buf))

\* C28: every plan the controller holds as its baseline or as its current
\* plan passes validate_plan: each green within [MIN_GREEN_SECONDS,
\* MAX_GREEN_SECONDS] and the total green within the cycle budget.
C28_AcceptedPlansValid ==
    /\ validate_plan(baseline)
    /\ validate_plan(current)

\* apply_adjustment has returned a plan for a known approach
Adjusted == ret.op = "apply_adjustment" /\ ret.error = "none"

\* the deltas of the sign of d, no larger than d in magnitude, that keep the
\* target and, after the proportional share is taken, every other approach
\* within [MIN_GREEN_SECONDS, MAX_GREEN_SECONDS]
FeasibleDeltas(cur, approach, d) ==
    {e \in -Abs(d)..Abs(d) :
        /\ e # 0
        /\ (e > 0) = (d > 0)
        /\ Feasible(cur, approach, e, SumOver(cur, Approaches \ {approach}))}

\* the feasible delta of the largest magnitude, 0 when there is none
LargestFeasibleDelta(cur, approach, d) ==
    LET ok == FeasibleDeltas(cur, approach, d)
    IN  IF ok = {} THEN 0 ELSE CHOOSE e \in ok : \A f \in ok : Abs(f) <= Abs(e)

\* C29: the change apply_adjustment(approach, d) makes to the green of the
\* target approach is the feasible delta of the largest magnitude, and is 0
\* exactly when no nonzero delta is feasible.
C29_TargetMovesByLargestFeasible ==
    Adjusted =>
        current[ret.arg] - ret.before[ret.arg]
            = LargestFeasibleDelta(ret.before, ret.arg, ret.delta)

\* what an approach of green g gives up when the others, of total green G,
\* absorb the delta d in proportion to their greens
Absorbed(g, d, G) == g - Round(g * G - d * g, G)

\* C30: when apply_adjustment applies a nonzero delta d, every other approach a
\* ends at round(g_a - d * g_a / G), g_a its green and G the total green of
\* the three others before the call; so it moves against d or stays, and an
\* approach with a larger green absorbs at least as much as a smaller one.
C30_OthersAbsorbByGreen ==
    Adjusted =>
        LET before == ret.before
            others == Approaches \ {ret.arg}
            G == SumOver(before, others)
            d == LargestFeasibleDelta(before, ret.arg, ret.delta)
        IN  d # 0 =>
               /\ \A a \in others : current[a] = before[a] - Absorbed(before[a], d, G)
               /\ \A a \in others : (current[a] - before[a]) * d <= 0
               /\ \A a, b \in others :
                     before[a] >= before[b] =>
                        Abs(current[a] - before[a]) >= Abs(current[b] - before[b])

\* a nonzero delta was applied and two of the other approaches absorbed
\* different amounts of it
C30_Witness ==
    /\ Adjusted
    /\ LargestFeasibleDelta(ret.before, ret.arg, ret.delta) # 0
    /\ \E a, b \in Approaches \ {ret.arg} :
          /\ current[a] # ret.before[a]
          /\ Abs(current[a] - ret.before[a]) > Abs(current[b] - ret.before[b])

\* a step has been taken and its locals are on record
Stepped == snapshots # <<>>

\* n vehicles are within the service capacity of an approach under a green:
\* saturation flow x lanes x green / cycle x minutesPerTick / 60
WithinCapacity(approach, green_seconds, n) ==
    n * CYCLE_SECONDS * 60
        <= SAT_FLOW_VEH_PER_HOUR_PER_LANE * LANES[approach] * green_seconds
              * SIM_MINUTES_PER_TICK

\* C31: in one step the departures of each approach are at most its queue plus
\* its arrivals and at most its service capacity; its new queue is the queue plus
\* the arrivals minus the departures, or the hard cap when that is larger; and
\* the departures total the step reports is the sum over the approaches.
C31_StepAccounting ==
    Stepped =>
        /\ \A a \in Approaches :
              LET demand == step_local.queue[a] + step_local.arrivals[a]
                  dep == step_local.dep[a]
              IN  /\ dep >= 0
                  /\ dep <= demand
                  /\ WithinCapacity(a, step_local.plan[a], dep)
                  /\ queue[a] = IF demand - dep > QUEUE_HARD_CAP_PER_APPROACH
                                THEN QUEUE_HARD_CAP_PER_APPROACH
                                ELSE demand - dep
        /\ total_departures_this_tick = SumOver(step_local.dep, Approaches)

\* a step that capped one approach at the hard cap, served another in full, and
\* held a third to its capacity
C31_Witness ==
    /\ Stepped
    /\ \E a \in Approaches :
          /\ step_local.queue[a] + step_local.arrivals[a] - step_local.dep[a]
                > QUEUE_HARD_CAP_PER_APPROACH
          /\ queue[a] = QUEUE_HARD_CAP_PER_APPROACH
    /\ \E a \in Approaches :
          /\ step_local.arrivals[a] > 0
          /\ step_local.dep[a] = step_local.queue[a] + step_local.arrivals[a]
    /\ \E a \in Approaches :
          /\ step_local.dep[a] < step_local.queue[a] + step_local.arrivals[a]
          /\ ~WithinCapacity(a, step_local.plan[a], step_local.dep[a] + 1)

\* C32: an approach whose arrivals in a step are within its service capacity
\* under the green of that step ends the step with a queue no longer than
\* before, and with a shorter one when the queue was positive and the capacity
\* exceeded the arrivals by at least one vehicle.
C32_MonotoneDrain ==
    Stepped =>
        \A a \in Approaches :
            WithinCapacity(a, step_local.plan[a], step_local.arrivals[a]) =>
                /\ queue[a] <= step_local.queue[a]
                /\ (step_local.queue[a] > 0
                      /\ WithinCapacity(a, step_local.plan[a], step_local.arrivals[a] + 1))
                   => queue[a] < step_local.queue[a]

\* in one step a queue shrinks under arrivals below the capacity without
\* emptying, and another stays as it was under arrivals that use the capacity up
C32_Witness ==
    /\ Stepped
    /\ \E a \in Approaches :
          /\ step_local.arrivals[a] > 0
          /\ WithinCapacity(a, step_local.plan[a], step_local.arrivals[a] + 1)
          /\ 0 < queue[a]
          /\ queue[a] < step_local.queue[a]
    /\ \E a \in Approaches :
          /\ step_local.arrivals[a] > 0
          /\ WithinCapacity(a, step_local.plan[a], step_local.arrivals[a])
          /\ ~WithinCapacity(a, step_local.plan[a], step_local.arrivals[a] + 1)
          /\ queue[a] = step_local.queue[a]
          /\ queue[a] > 0

\* C33: every snapshot of step has a density within [0, 100], which is 100 once
\* the total queue reaches maxQueuePerApproach x numApproaches, and a speed
\* within [jamSpeed, freeFlowSpeed]; of two snapshots the one with the larger
\* total queue never has the higher speed.
C33_DensityAndSpeed ==
    /\ \A i \in 1..Len(snapshots) :
          /\ 0 <= snapshots[i].densityPercent
          /\ snapshots[i].densityPercent <= 1000
          /\ snapshots[i].queueLengthVehicles >= MAX_QUEUE_PER_APPROACH * Len(APPROACHES)
                => snapshots[i].densityPercent = 1000
          /\ JAM_SPEED * 10 <= snapshots[i].avgSpeedKmh
          /\ snapshots[i].avgSpeedKmh <= FREE_FLOW_SPEED * 10
    /\ \A i \in 1..Len(snapshots), j \in 1..Len(snapshots) :
          snapshots[i].queueLengthVehicles > snapshots[j].queueLengthVehicles
             => snapshots[i].avgSpeedKmh <= snapshots[j].avgSpeedKmh

\* an empty road at free flow, then a total queue beyond the normalisation
\* limit at jam speed, then a shorter queue at a speed in between
C33_Witness ==
    /\ Len(snapshots) = MaxSteps
    /\ snapshots[1].queueLengthVehicles = 0
    /\ snapshots[1].avgSpeedKmh = FREE_FLOW_SPEED * 10
    /\ snapshots[2].queueLengthVehicles > MAX_QUEUE_PER_APPROACH * Len(APPROACHES)
    /\ snapshots[2].densityPercent = 1000
    /\ snapshots[2].avgSpeedKmh = JAM_SPEED * 10
    /\ snapshots[3].queueLengthVehicles > 0
    /\ snapshots[3].avgSpeedKmh > JAM_SPEED * 10
    /\ snapshots[3].avgSpeedKmh < FREE_FLOW_SPEED * 10

\* C34: a step that changes the queues, the tick counters or the snapshots leaves
\* the current plan, the baseline and the injected weather as they were; a step
\* that changes the current plan leaves the queues, the counters, the baseline,
\* the weather and the snapshots as they were; and a new snapshot carries the
\* weather injected last.
C34_SimulatorFrame ==
    [][/\ (simVars' # simVars \/ snapshots' # snapshots) =>
              /\ current' = current
              /\ baseline' = baseline
              /\ weather' = weather
       /\ current' # current =>
              /\ simVars' = simVars
              /\ baseline' = baseline
              /\ weather' = weather
              /\ snapshots' = snapshots
       /\ snapshots' # snapshots =>
              /\ snapshots'[Len(snapshots')].weatherTempC = weather.tempC
              /\ snapshots'[Len(snapshots')].weatherCondition = weather.condition]_vars

\* a snapshot taken under an adjusted plan after other weather was injected
C34_Witness ==
    /\ Stepped
    /\ weather # DEFAULT_WEATHER
    /\ snapshots[Len(snapshots)].weatherCondition = weather.condition
    /\ snapshots[Len(snapshots)].weatherTempC = weather.tempC
    /\ step_local.plan # baseline
    /\ current = step_local.plan
    /\ \E a \in Approaches : queue[a] > 0

\* the queue map of the scenario: the mainline S holds 40 of 60 vehicles
ScenarioQueue == [a \in Approaches |-> IF a = "S" THEN 40 ELSE IF a = "N" THEN 10 ELSE 5]

\* C35: the green a returned Recommendation recommends is its current green plus
\* the proposed delta, clamped to [minGreen, maxGreen], where the proposed delta
\* is round(maxDelta x target queue / total queue), at least 1 and at most
\* maxDelta, and 1 for an empty queue; the reported deltaSeconds is at most
\* maxDelta; for density 85 and the queue {N:10, E:5, S:40, W:5} at the baseline
\* greens the reported delta and the predicted delay are positive.
C35_ProposedDelta ==
    Returned =>
        LET q == ret.arg.queue_per_approach
            rec == ret.result
            total == SumOver(q, DOMAIN q)
            proposed == IF total = 0 THEN 1
                        ELSE Max(1, Min(RULES_MAX_DELTA,
                                        Round(RULES_MAX_DELTA * QueueOf(q, rec.targetApproach),
                                              total)))
        IN  /\ rec.recommendedGreenSeconds
                  = Max(MIN_GREEN_SECONDS,
                        Min(MAX_GREEN_SECONDS, rec.currentGreenSeconds + proposed))
            /\ rec.deltaSeconds <= RULES_MAX_DELTA
            /\ (ret.arg.density_percent = 850 /\ q = ScenarioQueue
                  /\ ret.arg.current_greens = DEFAULT_GREEN_SECONDS)
               => /\ rec.deltaSeconds > 0
                  /\ rec.predictedDelayIfNoActionMinutes > 0

\* the scenario with the departures of a peak tick: 13 more seconds for S and a
\* delay of 0.7 minutes
C35_Witness ==
    /\ Returned
    /\ ret.arg.density_percent = 850
    /\ ret.arg.queue_per_approach = ScenarioQueue
    /\ ret.arg.current_greens = DEFAULT_GREEN_SECONDS
    /\ ret.arg.departures_per_tick = 84
    /\ ret.result.targetApproach = "S"
    /\ ret.result.deltaSeconds = 13
    /\ ret.result.recommendedGreenSeconds = 58
    /\ ret.result.predictedDelayIfNoActionMinutes = 7

\* the step is a call of one of the two operator routes
Decided == {"apply_recommendation", "reject_recommendation"}

\* the store holds a recommendation with the id
Held(recs, id) == \E k \in 1..Len(recs) : recs[k].recommendationId = id

\* C36: rejectRecommendation, for any id, and applyRecommendation with an id the
\* store does not hold leave the controller's plan as it was; with an id the
\* store does not hold both report not-found and leave the recommendation list
\* and the decision log as they were too.
C36_UnknownIdChangesNothing ==
    [][/\ ret'.op = "reject_recommendation" =>
              /\ current' = current
              /\ baseline' = baseline
       /\ (ret'.op \in Decided /\ ~Held(recommendations_top, ret'.arg)) =>
              /\ ret'.error = "HTTP404"
              /\ current' = current
              /\ baseline' = baseline
              /\ recommendations_top' = recommendations_top
              /\ decision_log' = decision_log]_vars

\* an id the caller obtained and a later tick dropped is applied: not found,
\* beside a list that holds another recommendation and a log with a rejection
C36_Witness ==
    /\ ret.op = "apply_recommendation"
    /\ ret.arg \in obtained
    /\ ret.error = "HTTP404"
    /\ recommendations_top # <<>>
    /\ decision_log # <<>>
    /\ decision_log[1] = "Recommendation Rejected"
    /\ current = ret.before

\* C37: applying or rejecting a recommendation whose status is already APPLIED
\* or REJECTED leaves its status and the controller's plan as they were.
C37_DecidedAtMostOnce ==
    [][\A k \in 1..Len(recommendations_top) :
          (/\ ret'.op \in Decided
           /\ ret'.arg = recommendations_top[k].recommendationId
           /\ recommendations_top[k].status \in {"APPLIED", "REJECTED"})
          => /\ recommendations_top' = recommendations_top
             /\ current' = current]_vars

\* C38: after the first successful applyRecommendation, which no controller
\* mutation separates from the tick that generated the recommendation, the
\* controller's green of the target approach is the recommended green.
C38_AppliedGreenIsRecommended ==
    (ret.op = "apply_recommendation" /\ ret.error = "none" /\ Len(decision_log) = 1) =>
        \A k \in 1..Len(recommendations_top) :
            recommendations_top[k].recommendationId = ret.arg =>
                current[recommendations_top[k].targetApproach]
                   = recommendations_top[k].recommendedGreenSeconds

\* C39: when a tick has completed, every recommendation it stored reports as
\* currentGreenSeconds the green the controller holds for the recommendation's
\* own target approach.
C39_CurrentGreenOfTarget ==
    (Ticked /\ ret.error = "none") =>
        \A k \in 1..Len(recommendations_top) :
            recommendations_top[k].targetIntersectionId = INTERSECTION_ID =>
                recommendations_top[k].currentGreenSeconds
                   = current[recommendations_top[k].targetApproach]

\* the simulation step of the pass of _tick on record in r has run
SteppedIn(r) == r.op = "_tick" /\ r.arg # "before_step"

\* C40: of two passes of _tick that follow one another and both run the
\* simulation step, the second hands step the tick index after the one the
\* first handed it, also when the first raised an exception after its step.
C40_TickIndexSteppedOnce ==
    [][(pc = "tick" /\ pc' = "wait" /\ SteppedIn(ret) /\ SteppedIn(ret'))
          => ret'.delta = ret.delta + 1]_vars

====
